---------------------------- MODULE Spec2Model ----------------------------
(***************************************************************************)
(* Verification model of fa0311/file-transfer-system.                      *)
(*                                                                         *)
(* The repository holds several variants of one chunked transfer protocol: *)
(*   - internal/transfer: Validator, Sender.SendFile, Receiver.ReceiveFile *)
(*     with internal/progress.Tracker          (specifications Spec,       *)
(*     SpecSend);                                                          *)
(*   - server/grpc_server.go: FileTransferServer.Transfer, the metadata /  *)
(*     chunk / complete variant                (specification SpecFTS);    *)
(*   - the path validators Validator and the two PathValidator variants    *)
(*                                             (specification SpecPath);   *)
(*   - internal/grpc: Client.TransferFiles and its retry loop              *)
(*                                             (specification SpecClient); *)
(*   - internal/http: Handler.handleTransfer beside the running transfer   *)
(*                                             (specification SpecHandler);*)
(*   - internal/progress: one Tracker called by several goroutines, every  *)
(*     lock operation a step                   (specification SpecTracker);*)
(*   - Sender.SendFile with a source that grows and calls that fail        *)
(*                                          (specification SpecSendFaulty);*)
(*   - the HTTP front end Server.handleTransfer and Server.handleDelete     *)
(*                                             (specification SpecServer); *)
(*   - Receiver.ReceiveFile under any client, with a stream.Recv that may  *)
(*     fail                                 (specification SpecRawFaulty); *)
(*   - one Client called by several HTTP requests at once                  *)
(*                                            (specification SpecConnect); *)
(*   - the attempts of Client.transferSingleFile, each with its stream and *)
(*     its run of ReceiveFile                   (specification SpecRetry). *)
(*                                                                         *)
(* Path strings are sequences of one-character strings, so that the        *)
(* string-level operations of the code (strings.HasPrefix,                 *)
(* strings.Contains, filepath.Clean) are computed on characters, as the    *)
(* code computes them, and not on path components.                         *)
(***************************************************************************)
EXTENDS Integers, Sequences, FiniteSets, TLC

VARIABLES
    pv,         \* path-validation run: input path, validator variant, result
    driver,     \* which run this is: "sender" | "raw" | "fts" | "path"
    src,        \* sender process: content of the source file (bytes)
    snd,        \* Sender.SendFile / transferSingleFile locals
    c2s,        \* stream, client -> server: chunks in flight (FIFO)
    s2c,        \* stream, server -> client: statuses in flight (FIFO)
    closedSend, \* the client called stream.CloseSend()
    rcv,        \* Receiver.ReceiveFile locals
    dest,       \* receiver process: destination files, path -> content
    disk,       \* receiver process: what its disk answers for a chunk's FilePath
    tracker,    \* progress.Tracker of each process: "snd", "rcv"
    rawCount,   \* number of chunks delivered by the raw client
    ghost,      \* history: what the receiver did (never read by the code)
    fts,        \* FileTransferServer.Transfer locals
    ftsFS,      \* FileTransferServer's disk: directories and files created
    cli,        \* Client.TransferFiles / transferSingleFile locals and history
    hnd,        \* Handler.handleTransfer: its select loop and request context
    tk,         \* one progress.Tracker shared by goroutines: map, entries, locks
    srv,        \* Server (HTTP front end): one request, its disk and its answer
    cn,         \* one Client shared by HTTP requests: conn, client, the calls
    rt          \* transferSingleFile's attempts: one stream and receiver each

vars == <<pv, driver, src, snd, c2s, s2c, closedSend, rcv, dest, disk, tracker,
          rawCount, ghost, fts, ftsFS, cli, hnd, tk, srv, cn, rt>>

xferVars == <<driver, src, snd, c2s, s2c, closedSend, rcv, dest, disk, tracker,
              rawCount, ghost>>
ftsVars == <<fts, ftsFS>>
callerVars == <<cli, hnd>>
sideVars == <<tk, srv, cn, rt>>

-----------------------------------------------------------------------------
(* Bounds of the model.                                                    *)

\* longest raw path given to a validator (characters)
MaxPathLen == 5
\* longest metadata path given to FileTransferServer.Transfer (characters)
MaxMetaLen == 4

-----------------------------------------------------------------------------
(* Strings.                                                                *)

PathChars == {"/", ".", "r", "l"}

\* all strings of length 0..n over PathChars
StringsUpTo(n) == UNION {[1..k -> PathChars] : k \in 0..n}

\* strings.HasPrefix(s, p)
HasPrefix(s, p) == Len(p) <= Len(s) /\ SubSeq(s, 1, Len(p)) = p

\* strings.Contains(s, sub)
Contains(s, sub) ==
    \E i \in 1..(Len(s) - Len(sub) + 1) : SubSeq(s, i, i + Len(sub) - 1) = sub

\* strings.TrimPrefix(s, p)
TrimPrefix(s, p) == IF HasPrefix(s, p) THEN SubSeq(s, Len(p) + 1, Len(s)) ELSE s

DotDot == <<".", ".">>
Dot == <<".">>
Slash == <<"/">>

-----------------------------------------------------------------------------
(* path/filepath, on Unix.                                                 *)

\* the elements of a path between separators, empty elements dropped
RECURSIVE SplitAcc(_, _, _)
SplitAcc(s, cur, acc) ==
    IF s = <<>>
    THEN IF cur = <<>> THEN acc ELSE Append(acc, cur)
    ELSE IF Head(s) = "/"
         THEN SplitAcc(Tail(s), <<>>, IF cur = <<>> THEN acc ELSE Append(acc, cur))
         ELSE SplitAcc(Tail(s), Append(cur, Head(s)), acc)

Split(s) == SplitAcc(s, <<>>, <<>>)

RECURSIVE JoinElems(_)
JoinElems(elems) ==
    IF elems = <<>> THEN <<>>
    ELSE IF Len(elems) = 1 THEN elems[1]
    ELSE elems[1] \o Slash \o JoinElems(Tail(elems))

\* filepath.IsAbs
IsAbs(path) == HasPrefix(path, Slash)

\* the element stack filepath.Clean builds: "." dropped, "x/.." dropped,
\* ".." kept only at the front of a relative path
RECURSIVE CleanElems(_, _, _)
CleanElems(elems, stack, rooted) ==
    IF elems = <<>> THEN stack
    ELSE LET e == Head(elems)
             rest == Tail(elems)
         IN  IF e = Dot THEN CleanElems(rest, stack, rooted)
             ELSE IF e = DotDot
                  THEN IF stack # <<>> /\ stack[Len(stack)] # DotDot
                       THEN CleanElems(rest, SubSeq(stack, 1, Len(stack) - 1), rooted)
                       ELSE IF rooted
                            THEN CleanElems(rest, stack, rooted)
                            ELSE CleanElems(rest, Append(stack, e), rooted)
                  ELSE CleanElems(rest, Append(stack, e), rooted)

\* filepath.Clean
Clean(path) ==
    LET rooted == IsAbs(path)
        stack == CleanElems(Split(path), <<>>, rooted)
    IN  IF rooted THEN Slash \o JoinElems(stack)
        ELSE IF stack = <<>> THEN Dot ELSE JoinElems(stack)

\* filepath.Join(a, b), both non-empty
Join(a, b) == Clean(a \o Slash \o b)

\* index of the last separator of s, 0 if none
LastSlash(s) ==
    LET idx == {i \in 1..Len(s) : s[i] = "/"}
    IN  IF idx = {} THEN 0 ELSE CHOOSE i \in idx : \A j \in idx : j <= i

\* filepath.Dir
Dir(path) == Clean(SubSeq(path, 1, LastSlash(path)))

RECURSIVE StripTrailingSlashes(_)
StripTrailingSlashes(s) ==
    IF s # <<>> /\ s[Len(s)] = "/"
    THEN StripTrailingSlashes(SubSeq(s, 1, Len(s) - 1))
    ELSE s

\* filepath.Base
Base(path) ==
    IF path = <<>> THEN Dot
    ELSE LET p == StripTrailingSlashes(path)
             q == SubSeq(p, LastSlash(p) + 1, Len(p))
         IN  IF q = <<>> THEN Slash ELSE q

\* number of leading elements two element lists share
RECURSIVE CommonLen(_, _)
CommonLen(a, b) ==
    IF a = <<>> \/ b = <<>> \/ Head(a) # Head(b) THEN 0
    ELSE 1 + CommonLen(Tail(a), Tail(b))

RECURSIVE Ups(_)
Ups(n) == IF n = 0 THEN <<>> ELSE <<DotDot>> \o Ups(n - 1)

\* filepath.Rel(base, targ) for two absolute paths (never an error then)
Rel(base, targ) ==
    LET b == Split(Clean(base))
        t == Split(Clean(targ))
        k == CommonLen(b, t)
        out == Ups(Len(b) - k) \o SubSeq(t, k + 1, Len(t))
    IN  IF out = <<>> THEN Dot ELSE JoinElems(out)


-----------------------------------------------------------------------------
(* The disk the validators look at.  allowedDir is /r.  Inside it: the     *)
(* regular file /r/r, the symbolic link /r/l -> /l and the empty directory *)
(* /r/e.  Outside it: the                                                  *)
(* directory /l with the file /l/r, and the directory /rr (a sibling whose *)
(* name starts with the root's name) with the file /rr/r.                  *)

allowedDir == <<"/", "r">>

ElR == <<"r">>
ElL == <<"l">>
ElRR == <<"r", "r">>
ElE == <<"e">>

NoNode == [kind |-> "none", target |-> <<>>]

\* the node at an absolute path given by its elements, not following links
Node(elems) ==
    CASE elems = <<>>           -> [kind |-> "dir", target |-> <<>>]
      [] elems = <<ElR>>        -> [kind |-> "dir", target |-> <<>>]
      [] elems = <<ElR, ElR>>   -> [kind |-> "file", target |-> <<>>]
      [] elems = <<ElR, ElL>>   -> [kind |-> "link", target |-> <<"/", "l">>]
      [] elems = <<ElR, ElE>>   -> [kind |-> "dir", target |-> <<>>]
      [] elems = <<ElL>>        -> [kind |-> "dir", target |-> <<>>]
      [] elems = <<ElL, ElR>>   -> [kind |-> "file", target |-> <<>>]
      [] elems = <<ElRR>>       -> [kind |-> "dir", target |-> <<>>]
      [] elems = <<ElRR, ElR>>  -> [kind |-> "file", target |-> <<>>]
      [] OTHER                  -> NoNode

\* walk the elements rest from the resolved directory cur, following links
\* (the disk above has no cycle of links)
RECURSIVE Walk(_, _)
Walk(cur, rest) ==
    IF rest = <<>> THEN [ok |-> TRUE, elems |-> cur]
    ELSE LET here == Append(cur, Head(rest))
             n == Node(here)
         IN  CASE n.kind = "none" -> [ok |-> FALSE, elems |-> <<>>]
               [] n.kind = "link" ->
                    Walk(<<>>, Split(n.target) \o Tail(rest))
               [] n.kind = "file" ->
                    IF Tail(rest) = <<>> THEN [ok |-> TRUE, elems |-> here]
                    ELSE [ok |-> FALSE, elems |-> <<>>]
               [] OTHER -> Walk(here, Tail(rest))

\* filepath.EvalSymlinks of an absolute, cleaned path
EvalSymlinks(path) ==
    LET w == Walk(<<>>, Split(path))
    IN  [ok |-> w.ok, path |-> IF w.ok THEN Slash \o JoinElems(w.elems) ELSE <<>>]

\* os.Lstat of an absolute, cleaned path: links are followed in the
\* directory part, not at the last element
Lstat(path) ==
    LET elems == Split(path)
    IN  IF elems = <<>> THEN Node(<<>>)
        ELSE LET w == Walk(<<>>, SubSeq(elems, 1, Len(elems) - 1))
             IN  IF w.ok /\ Node(w.elems).kind = "dir"
                 THEN Node(Append(w.elems, elems[Len(elems)]))
                 ELSE NoNode

-----------------------------------------------------------------------------
(* The validators.  A result is [err, paths]: err = "nil" and the set of   *)
(* validated paths, or the error and no path.                              *)

Accept(paths) == [err |-> "nil", paths |-> paths]
Reject(why) == [err |-> why, paths |-> {}]

\* a variant of the check below that looks at the cleaned path
SuspiciousAfterClean(path) == Contains(Clean(path), DotDot)

\* the check for suspicious patterns, made on the path as it was given
SuspiciousPattern(path) == Contains(path, DotDot)

\* internal/transfer Validator.ValidatePath
ValidatePath(path) ==
    LET cleanPath == Clean(path)
        absPath == IF IsAbs(cleanPath) THEN cleanPath ELSE Join(allowedDir, cleanPath)
        whole == EvalSymlinks(absPath)
        resolvedDir == EvalSymlinks(Dir(absPath))
        resolvedPath ==
            IF whole.ok THEN whole.path
            ELSE IF resolvedDir.ok THEN Join(resolvedDir.path, Base(absPath))
            ELSE absPath
    IN  IF ~HasPrefix(resolvedPath, allowedDir) THEN Reject("outside")
        ELSE IF SuspiciousPattern(path) THEN Reject("traversal")
        ELSE Accept({resolvedPath})

\* internal/transfer Validator.ValidateDestPath
ValidateDestPath(path) == ValidatePath(path)

\* the names a directory of the disk may hold, in the order of os.ReadDir
NameOrder == <<ElE, ElL, ElR, ElRR>>

\* the pattern has a wildcard
HasMagic(pattern) == \E i \in DOMAIN pattern : pattern[i] = "*"

\* filepath.Match of one path element, for patterns of letters and *
RECURSIVE MatchName(_, _)
MatchName(p, name) ==
    IF p = <<>> THEN name = <<>>
    ELSE IF Head(p) = "*"
    THEN \E k \in 0..Len(name) : MatchName(Tail(p), SubSeq(name, k + 1, Len(name)))
    ELSE name # <<>> /\ Head(name) = Head(p) /\ MatchName(Tail(p), Tail(name))

\* filepath.Glob of an absolute, cleaned pattern whose wildcards, if any, are
\* in its last element: the matches in the order Glob returns them
GlobSeq(pattern) ==
    LET elems == Split(pattern)
        dirElems == SubSeq(elems, 1, Len(elems) - 1)
        w == Walk(<<>>, dirElems)
        Matching(i) ==
            IF /\ Node(Append(w.elems, NameOrder[i])).kind # "none"
               /\ MatchName(elems[Len(elems)], NameOrder[i])
            THEN <<Slash \o JoinElems(Append(dirElems, NameOrder[i]))>>
            ELSE <<>>
    IN  IF ~HasMagic(pattern)
        THEN IF Lstat(pattern).kind # "none" THEN <<pattern>> ELSE <<>>
        ELSE IF ~w.ok \/ Node(w.elems).kind # "dir" THEN <<>>
        ELSE Matching(1) \o Matching(2) \o Matching(3) \o Matching(4)

\* filepath.Glob, as the set of its matches
Glob(pattern) == {GlobSeq(pattern)[i] : i \in DOMAIN GlobSeq(pattern)}

\* internal/transfer Validator.ValidateSourcePath
ValidateSourcePath(path) ==
    LET cleanPath == Clean(path)
        pattern == IF IsAbs(cleanPath) THEN cleanPath ELSE Join(allowedDir, cleanPath)
        matches == Glob(pattern)
        validPaths == {m \in matches :
                          HasPrefix(m, allowedDir) /\ Lstat(m).kind = "file"}
    IN  IF Contains(path, DotDot) THEN Reject("traversal")
        ELSE IF matches = {} THEN Reject("nomatch")
        ELSE IF validPaths = {} THEN Reject("novalid")
        ELSE Accept(validPaths)

\* the tail both PathValidator variants share: resolve, then filepath.Rel
PathValidatorCheck(absPath) ==
    LET whole == EvalSymlinks(absPath)
        resolvedPath == IF whole.ok THEN whole.path ELSE absPath
        relPath == Rel(allowedDir, resolvedPath)
    IN  IF HasPrefix(relPath, DotDot) THEN Reject("outside")
        ELSE Accept({resolvedPath})

\* PathValidator.ValidatePath, the variant that roots every path at allowedDir
PathValidatorRooted(path) ==
    IF Contains(path, DotDot) THEN Reject("traversal")
    ELSE LET cleanPath == TrimPrefix(Clean(path), Slash)
         IN  PathValidatorCheck(Clean(allowedDir \o Slash \o cleanPath))

\* PathValidator.ValidatePath, the variant that requires a leading slash
PathValidatorAbsOnly(path) ==
    IF Contains(path, DotDot) THEN Reject("traversal")
    ELSE IF ~HasPrefix(path, Slash) THEN Reject("relative")
    ELSE PathValidatorCheck(Join(allowedDir, Clean(path)))

-----------------------------------------------------------------------------
(* Specification SpecPath: one raw path, handed to one validator.          *)

RawPaths == StringsUpTo(MaxPathLen)

PvIdle == [path |-> <<>>, variant |-> "off", res |-> Reject("none")]

\* Validator.ValidatePath is called on the input
CallValidatePath ==
    /\ pv.variant = "none"
    /\ pv' = [pv EXCEPT !.variant = "Validator", !.res = ValidatePath(pv.path)]
    /\ UNCHANGED <<xferVars, ftsVars, callerVars, sideVars>>

\* Validator.ValidateSourcePath is called on the input
CallValidateSourcePath ==
    /\ pv.variant = "none"
    /\ pv' = [pv EXCEPT !.variant = "Source", !.res = ValidateSourcePath(pv.path)]
    /\ UNCHANGED <<xferVars, ftsVars, callerVars, sideVars>>

\* PathValidator.ValidatePath (rooting variant) is called on the input
CallPathValidatorRooted ==
    /\ pv.variant = "none"
    /\ pv' = [pv EXCEPT !.variant = "Rooted", !.res = PathValidatorRooted(pv.path)]
    /\ UNCHANGED <<xferVars, ftsVars, callerVars, sideVars>>

\* PathValidator.ValidatePath (absolute-only variant) is called on the input
CallPathValidatorAbsOnly ==
    /\ pv.variant = "none"
    /\ pv' = [pv EXCEPT !.variant = "AbsOnly", !.res = PathValidatorAbsOnly(pv.path)]
    /\ UNCHANGED <<xferVars, ftsVars, callerVars, sideVars>>


-----------------------------------------------------------------------------
(* internal/progress: the Tracker.  A tracker is a map from transfer       *)
(* identifiers to entries; NoEntry stands for an identifier not in the map.*)

FileIds == {"", "A", "B"}

NoEntry == [status |-> "absent", total |-> 0, bytes |-> 0, err |-> ""]

NewTracker == [id \in FileIds |-> NoEntry]

\* Tracker.StartTransfer
StartTransfer(t, id, totalSize) ==
    [t EXCEPT ![id] = [status |-> "in_progress", total |-> totalSize,
                       bytes |-> 0, err |-> ""]]

\* Tracker.UpdateProgress
UpdateProgress(t, id, bytesTransferred) ==
    IF t[id] = NoEntry THEN t ELSE [t EXCEPT ![id].bytes = bytesTransferred]

\* Tracker.CompleteTransfer
CompleteTransfer(t, id) ==
    IF t[id] = NoEntry THEN t ELSE [t EXCEPT ![id].status = "completed"]

\* a variant of FailTransfer that records the message and leaves Status
FailTransferKeepsStatus(t, id, errorMsg) ==
    IF t[id] = NoEntry THEN t ELSE [t EXCEPT ![id].err = errorMsg]

\* Tracker.FailTransfer
FailTransfer(t, id, errorMsg) ==
    IF t[id] = NoEntry THEN t
    ELSE [t EXCEPT ![id].status = "error", ![id].err = errorMsg]

\* Tracker.GetProgress
GetProgress(t, id) == t[id]

\* a variant of GetProgressPercent that answers 100 for an empty file
PercentFullWhenEmpty(fp) ==
    IF fp.total = 0 THEN 100 ELSE (fp.bytes * 100) \div fp.total

\* FileProgress.GetProgressPercent (the float32 quotient, rounded down)
GetProgressPercent(fp) ==
    IF fp.total = 0 THEN 0 ELSE (fp.bytes * 100) \div fp.total

-----------------------------------------------------------------------------
(* internal/transfer: chunks, statuses and the destination disk.           *)

\* bytes per chunk; the code's ChunkSize is 1024 * 1024, scaled down here
ChunkSize == 2
\* chunks the raw client sends on one stream
MaxRaw == 2
\* largest TotalSize, and longest payload, of a raw client's chunk
MaxRawSize == 1

\* source file sizes: 0, 1, ChunkSize - 1, ChunkSize, ChunkSize + 1, several chunks
MaxFileSize == 2 * ChunkSize + 1

\* the values a byte of the source file takes
FileBytes == {1, 2}

SourceFiles == UNION {[1..n -> FileBytes] : n \in 0..MaxFileSize}

\* crypto/sha256.Sum256: a collision-free digest, kept apart from the data
Sha256(data) == <<"sha256", data>>

Min(a, b) == IF a <= b THEN a ELSE b
Max(a, b) == IF a >= b THEN a ELSE b

\* os.File.WriteAt(data, offset) on a file's content; a gap reads as zeros
WriteAt(content, data, offset) ==
    IF data = <<>> THEN content
    ELSE [i \in 1..Max(Len(content), offset + Len(data)) |->
            IF i > offset /\ i <= offset + Len(data) THEN data[i - offset]
            ELSE IF i <= Len(content) THEN content[i]
            ELSE 0]

\* what was at the destination /r/r before any transfer
OldContent == <<7, 7>>

DestRR == <<"/", "r", "/", "r">>

\* os.MkdirAll(dir) succeeds: dir resolves to a directory of the disk
MkdirAllOk(dir) ==
    LET d == EvalSymlinks(dir)
    IN  d.ok /\ Node(Split(d.path)).kind = "dir"

\* os.Create(path) succeeds: the parent is a directory, path is not one
CreateOk(path) == MkdirAllOk(Dir(path)) /\ Lstat(path).kind # "dir"

Status(id, kind, bytes, total, pct, msg) ==
    [id |-> id, kind |-> kind, bytes |-> bytes, total |-> total,
     pct |-> pct, msg |-> msg]

\* Receiver.sendErrorStatus
ErrorStatus(id, msg) == Status(id, "error", 0, 0, 0, msg)


-----------------------------------------------------------------------------
(* internal/transfer: Receiver.ReceiveFile.  One iteration of its loop is  *)
(* computed by ReceiveChunk on a record st of everything the iteration     *)
(* reads and writes: the locals (rcv), the destination disk (dest), the    *)
(* receiver's tracker (trk), the statuses it sends (out) and the history   *)
(* (ghost); st.ok is the result of the last finalizeFile.                  *)

RcvStart == [pc |-> "recv", ret |-> "none", fileID |-> "", filePath |-> <<>>,
             total |-> 0, received |-> 0, open |-> FALSE]

GhostStart == [integrityFailed |-> {}, sizeFailed |-> {}, unverified |-> FALSE,
               handles |-> 0, opened |-> {}, log |-> <<>>, chunks |-> <<>>,
               declared |-> [id \in FileIds |-> 0],
               written |-> [id \in FileIds |-> 0]]

\* a variant of the comparison below that fails only on surplus bytes
BytesAtMost(received, totalSize) == received <= totalSize

\* the comparison of finalizeFile: received != totalSize is the failure
BytesMatch(received, totalSize) == received = totalSize

\* a variant of the comparison below that accepts every chunk
ChecksumIgnored(chunk) == TRUE

\* the checksum comparison of ReceiveFile
ChecksumMatches(chunk) == Sha256(chunk.data) = chunk.checksum

\* ReceiveFile returns ret; the deferred function closes currentFile
Returned(st, ret) ==
    [st EXCEPT !.rcv.pc = "returned", !.rcv.ret = ret, !.rcv.open = FALSE,
               !.ghost.handles = IF st.rcv.open THEN @ - 1 ELSE @]

\* a variant of finalizeFile that checks nothing and sends nothing
FinalizeSkipped(st) == [st EXCEPT !.ok = TRUE]

\* Receiver.finalizeFile(stream, fileID, filePath, totalSize, received)
FinalizeFile(st) ==
    LET r == st.rcv
        short == IF r.received # r.total THEN {r.fileID} ELSE {}
    IN  IF ~BytesMatch(r.received, r.total)
        THEN [st EXCEPT !.out = Append(@, ErrorStatus(r.fileID, "incomplete transfer")),
                        !.trk = FailTransfer(@, r.fileID, "incomplete transfer"),
                        !.ghost.sizeFailed = @ \cup short,
                        !.ok = FALSE]
        ELSE [st EXCEPT !.trk = CompleteTransfer(@, r.fileID),
                        !.out = Append(@, Status(r.fileID, "completed", r.received,
                                                 r.total, 100, "")),
                        !.ghost.sizeFailed = @ \cup short,
                        !.ok = TRUE]

\* SendFile's arguments: the validated source path and destPath
SrcPath == <<"/", "r", "/", "r">>
DestArg == <<>>

\* Sender.SendFile, "Calculate relative path for destination"
RelativePath ==
    IF DestArg # <<>> THEN Join(DestArg, Base(SrcPath)) ELSE Base(SrcPath)

\* the FilePath fields a raw client's chunks carry
RawChunkPaths == {<<"r">>, <<"/", "l">>, <<>>}

ChunkPaths == RawChunkPaths \cup {RelativePath}

\* for each FilePath a chunk can carry: what ValidateDestPath answers, and
\* whether os.MkdirAll and os.Create succeed on the validated path.  The
\* directories and links of the disk do not change while a stream is served,
\* so the variable disk holds these answers from the start.
DestOutcome ==
    [p \in ChunkPaths |->
        LET v == ValidateDestPath(p)
            path == CHOOSE q \in v.paths : TRUE
        IN  [v |-> v,
             mkdirOk |-> v.err = "nil" /\ MkdirAllOk(Dir(path)),
             createOk |-> v.err = "nil" /\ CreateOk(path)]]

\* a variant of os.Create that opens without truncating
CreateKeepsContent(files, path) ==
    IF path \in DOMAIN files THEN files[path] ELSE <<>>

\* os.Create(filePath): the content of the file it leaves, created or truncated
CreateContent(files, path) == <<>>

\* "Initialize new file transfer": validate, MkdirAll, Create, StartTransfer
OpenNewFile(st, chunk) ==
    LET v == disk[chunk.path].v
        path == CHOOSE p \in v.paths : TRUE
        s1 == [st EXCEPT !.rcv.fileID = chunk.id, !.rcv.total = chunk.total]
    IN  IF v.err # "nil"
        THEN Returned([s1 EXCEPT !.out = Append(@, ErrorStatus(chunk.id,
                                             "invalid destination path"))], "err")
        ELSE IF ~disk[chunk.path].mkdirOk
        THEN Returned([s1 EXCEPT !.rcv.filePath = path,
                                 !.out = Append(@, ErrorStatus(chunk.id,
                                             "failed to create directory"))], "err")
        ELSE IF ~disk[chunk.path].createOk
        THEN Returned([s1 EXCEPT !.rcv.filePath = path,
                                 !.out = Append(@, ErrorStatus(chunk.id,
                                             "failed to create file"))], "err")
        ELSE [s1 EXCEPT !.rcv.filePath = path,
                        !.rcv.open = TRUE,
                        !.rcv.received = 0,
                        !.dest = (path :> CreateContent(st.dest, path)) @@ @,
                        !.trk = StartTransfer(@, chunk.id, chunk.total),
                        !.ghost.handles = @ + 1,
                        !.ghost.opened = @ \cup {chunk.id},
                        !.ghost.declared[chunk.id] = chunk.total,
                        !.ghost.written[chunk.id] = 0]

\* "Verify checksum" to the end of the loop body
ProcessData(st, chunk) ==
    LET r == st.rcv
        received == r.received + Len(chunk.data)
        trk1 == UpdateProgress(st.trk, r.fileID, received)
        bad == IF Sha256(chunk.data) # chunk.checksum THEN {r.fileID} ELSE {}
        s1 == [st EXCEPT
                 !.dest[r.filePath] = WriteAt(@, chunk.data, chunk.offset),
                 !.rcv.received = received,
                 !.trk = trk1,
                 !.out = Append(@, Status(r.fileID, "in_progress", received, r.total,
                                  GetProgressPercent(GetProgress(trk1, r.fileID)), "")),
                 !.ghost.written[r.fileID] = @ + Len(chunk.data),
                 !.ghost.integrityFailed = @ \cup bad,
                 !.ghost.unverified = @ \/ Sha256(chunk.data) # chunk.checksum]
        fin == FinalizeFile(s1)
    IN  IF ~ChecksumMatches(chunk)
        THEN Returned([st EXCEPT
                         !.out = Append(@, ErrorStatus(r.fileID, "checksum mismatch")),
                         !.trk = FailTransfer(@, r.fileID, "checksum mismatch"),
                         !.ghost.integrityFailed = @ \cup bad], "err")
        ELSE IF ~chunk.isLast THEN s1
        ELSE IF ~fin.ok THEN Returned(fin, "err")
        ELSE [fin EXCEPT !.rcv.open = FALSE, !.rcv.fileID = "",
                         !.ghost.handles = @ - 1]

\* the loop body of ReceiveFile for a chunk stream.Recv returned
ReceiveChunk(st, chunk) ==
    LET r == st.rcv
        fin == FinalizeFile(st)
        opened == IF r.open
                  THEN OpenNewFile([fin EXCEPT !.rcv.open = FALSE], chunk)
                  ELSE OpenNewFile(st, chunk)
    IN  IF r.fileID = "" \/ r.fileID # chunk.id
        THEN IF r.open /\ ~fin.ok THEN Returned(fin, "err")
             ELSE IF opened.rcv.pc = "returned" THEN opened
             ELSE ProcessData(opened, chunk)
        ELSE ProcessData(st, chunk)

\* stream.Recv returned io.EOF
ReceiveEOF(st) ==
    LET fin == FinalizeFile(st)
    IN  IF st.rcv.open
        THEN IF ~fin.ok THEN Returned(fin, "err") ELSE Returned(fin, "nil")
        ELSE Returned(st, "nil")

\* the record an iteration starts from
Before == [rcv |-> rcv, dest |-> dest, trk |-> tracker.rcv, out |-> <<>>,
           ghost |-> ghost, ok |-> TRUE]

\* the iteration's effects, written back; inbox is what the client has not read
Commit(st, inbox) ==
    /\ rcv' = st.rcv
    /\ dest' = st.dest
    /\ tracker' = [tracker EXCEPT !.rcv = st.trk]
    /\ ghost' = [st.ghost EXCEPT
                   !.log = @ \o [i \in DOMAIN st.out |->
                                    <<st.out[i].id, st.out[i].kind>>]]
    /\ s2c' = inbox \o st.out


-----------------------------------------------------------------------------
(* internal/transfer: Sender.SendFile, called by Client.transferSingleFile *)
(* with a fresh stream.                                                    *)

\* uuid.New().String() of the one SendFile call
SenderFileId == "A"

SndStart == [pc |-> "start", ret |-> "none", msg |-> "", total |-> 0, offset |-> 0]
SndOff == [pc |-> "off", ret |-> "none", msg |-> "", total |-> 0, offset |-> 0]

\* a variant of the error paths of SendFile that returns without the tracker
SenderFailForgotten(t, msg) == t

\* s.tracker.FailTransfer(fileID, ...) on the error paths of SendFile
SenderFail(t, msg) == FailTransfer(t, SenderFileId, msg)

\* file.Read(buffer): the bytes read at the file's position
ReadLen(content, offset) == Max(0, Min(ChunkSize, Len(content) - offset))

\* a variant of the IsLast field below that wants the offset past the total
IsLastChunkStrict(offset, n, totalSize) == offset + n > totalSize

\* the IsLast field: err == io.EOF || offset+int64(n) >= totalSize; os.File.Read
\* returns io.EOF only together with n = 0
IsLastChunk(offset, n, totalSize) == offset + n >= totalSize

\* the pb.FileChunk built from the n bytes read at offset
MakeChunk(content, offset, n, totalSize) ==
    LET data == SubSeq(content, offset + 1, offset + n)
    IN  [id |-> SenderFileId, path |-> RelativePath, total |-> totalSize,
         offset |-> offset, data |-> data, checksum |-> Sha256(data),
         isLast |-> IsLastChunk(offset, n, totalSize)]

\* os.Open, file.Stat, uuid.New, tracker.StartTransfer
SendFileStart ==
    /\ driver = "sender"
    /\ snd.pc = "start"
    /\ snd' = [snd EXCEPT !.pc = "send", !.total = Len(src)]
    /\ tracker' = [tracker EXCEPT !.snd = StartTransfer(@, SenderFileId, Len(src))]
    /\ UNCHANGED <<pv, driver, src, c2s, s2c, closedSend, rcv, dest, disk, rawCount,
                   ghost, fts, ftsFS, cli, hnd, sideVars>>

\* one iteration of "Send file in chunks"
SendFileChunk ==
    /\ driver = "sender"
    /\ snd.pc = "send"
    /\ LET n == ReadLen(src, snd.offset)
           chunk == MakeChunk(src, snd.offset, n, snd.total)
       IN  IF n = 0
           THEN /\ snd' = [snd EXCEPT !.pc = "status"]
                /\ UNCHANGED <<c2s, tracker, ghost>>
           ELSE /\ c2s' = Append(c2s, chunk)
                /\ ghost' = [ghost EXCEPT !.chunks = Append(@, chunk)]
                /\ tracker' = [tracker EXCEPT
                                 !.snd = UpdateProgress(@, SenderFileId, snd.offset + n)]
                /\ snd' = [snd EXCEPT !.offset = @ + n,
                                      !.pc = IF chunk.isLast THEN "status" ELSE "send"]
    /\ UNCHANGED <<pv, driver, src, s2c, closedSend, rcv, dest, disk, rawCount,
                   fts, ftsFS, cli, hnd, sideVars>>

\* a variant of the test below that takes any status but an error for the end
StatusNotError(status) == status.kind # "error"

\* "Receive status updates": if status.Status == "completed"
StatusCompleted(status) == status.kind = "completed"

\* one iteration of "Receive status updates": stream.Recv returns the next
\* status, or the end of the stream once the handler has returned
SendFileStatus ==
    /\ driver = "sender"
    /\ snd.pc = "status"
    /\ IF s2c # <<>>
       THEN LET status == Head(s2c)
            IN  /\ s2c' = Tail(s2c)
                /\ CASE status.kind = "error" ->
                          /\ tracker' = [tracker EXCEPT
                                !.snd = SenderFail(@, status.msg)]
                          /\ snd' = [snd EXCEPT !.pc = "returned", !.ret = "err",
                                                !.msg = status.msg]
                     [] StatusCompleted(status) ->
                          /\ tracker' = [tracker EXCEPT
                                !.snd = CompleteTransfer(@, SenderFileId)]
                          /\ snd' = [snd EXCEPT !.pc = "returned", !.ret = "nil"]
                     [] OTHER -> UNCHANGED <<tracker, snd>>
       ELSE /\ rcv.pc = "returned"
            /\ s2c' = s2c
            /\ IF rcv.ret = "nil"
               THEN /\ snd' = [snd EXCEPT !.pc = "returned", !.ret = "nil"]
                    /\ UNCHANGED tracker
               ELSE /\ tracker' = [tracker EXCEPT
                          !.snd = SenderFail(@, "rpc error")]
                    /\ snd' = [snd EXCEPT !.pc = "returned", !.ret = "err",
                                          !.msg = "rpc error"]
    /\ UNCHANGED <<pv, driver, src, c2s, closedSend, rcv, dest, disk, rawCount, ghost,
                   fts, ftsFS, cli, hnd, sideVars>>

(* What can go wrong around SendFile: the source file grows after         *)
(* file.Stat, file.Read fails, the transport fails under stream.Send or    *)
(* under stream.Recv.                                                      *)

\* another process appends a byte to the source file during the transfer
SourceAppended ==
    /\ driver = "sender"
    /\ snd.pc = "send"
    /\ Len(src) = snd.total
    /\ \E b \in FileBytes : src' = Append(src, b)
    /\ UNCHANGED <<pv, driver, snd, c2s, s2c, closedSend, rcv, dest, disk, tracker,
                   rawCount, ghost, fts, ftsFS, cli, hnd, sideVars>>

\* file.Read returns an error other than io.EOF
SendFileReadError ==
    /\ driver = "sender"
    /\ snd.pc = "send"
    /\ tracker' = [tracker EXCEPT !.snd = SenderFail(@, "read error")]
    /\ snd' = [snd EXCEPT !.pc = "returned", !.ret = "err", !.msg = "read error"]
    /\ UNCHANGED <<pv, driver, src, c2s, s2c, closedSend, rcv, dest, disk, rawCount,
                   ghost, fts, ftsFS, cli, hnd, sideVars>>

\* stream.Send(chunk) returns an error: the chunk read is not delivered
SendFileSendError ==
    /\ driver = "sender"
    /\ snd.pc = "send"
    /\ ReadLen(src, snd.offset) > 0
    /\ tracker' = [tracker EXCEPT !.snd = SenderFail(@, "send error")]
    /\ snd' = [snd EXCEPT !.pc = "returned", !.ret = "err", !.msg = "send error"]
    /\ UNCHANGED <<pv, driver, src, c2s, s2c, closedSend, rcv, dest, disk, rawCount,
                   ghost, fts, ftsFS, cli, hnd, sideVars>>

\* stream.Recv returns an error other than io.EOF: the transport failed
SendFileRecvError ==
    /\ driver = "sender"
    /\ snd.pc = "status"
    /\ tracker' = [tracker EXCEPT !.snd = SenderFail(@, "recv error")]
    /\ snd' = [snd EXCEPT !.pc = "returned", !.ret = "err", !.msg = "recv error"]
    /\ UNCHANGED <<pv, driver, src, c2s, s2c, closedSend, rcv, dest, disk, rawCount,
                   ghost, fts, ftsFS, cli, hnd, sideVars>>

\* Client.transferSingleFile: stream.CloseSend() once SendFile has returned
CloseSend ==
    /\ driver = "sender"
    /\ snd.pc = "returned"
    /\ snd' = [snd EXCEPT !.pc = "closed"]
    /\ closedSend' = TRUE
    /\ UNCHANGED <<pv, driver, src, c2s, s2c, rcv, dest, disk, tracker, rawCount, ghost,
                   fts, ftsFS, cli, hnd, sideVars>>

-----------------------------------------------------------------------------
(* The receiver's actions.                                                 *)

\* ReceiveFile takes the sender's next chunk off the stream
ReceiveFromSender ==
    /\ driver = "sender"
    /\ rcv.pc = "recv"
    /\ c2s # <<>>
    /\ Commit(ReceiveChunk(Before, Head(c2s)), s2c)
    /\ c2s' = Tail(c2s)
    /\ UNCHANGED <<pv, driver, src, snd, closedSend, disk, rawCount, fts, ftsFS, cli, hnd, sideVars>>

\* stream.Recv returns io.EOF: the client closed its side, nothing is in flight
ReceiveEndOfStream ==
    /\ driver \in {"sender", "raw"}
    /\ rcv.pc = "recv"
    /\ c2s = <<>>
    /\ closedSend
    /\ Commit(ReceiveEOF(Before), s2c)
    /\ UNCHANGED <<pv, driver, src, snd, c2s, closedSend, disk, rawCount, fts, ftsFS, cli, hnd, sideVars>>

\* stream.Recv returned an error other than io.EOF
ReceiveFailed(st) ==
    Returned([st EXCEPT !.out = Append(@, ErrorStatus(st.rcv.fileID,
                                                      "failed to receive chunk"))],
             "err")

\* the transport fails under the receiver's stream.Recv
ReceiveRecvError ==
    /\ driver \in {"sender", "raw"}
    /\ rcv.pc = "recv"
    /\ Commit(ReceiveFailed(Before), s2c)
    /\ UNCHANGED <<pv, driver, src, snd, c2s, closedSend, disk, rawCount, fts, ftsFS, cli, hnd, sideVars>>

(* A raw client: any gRPC client of the TransferFile method.  It sends any *)
(* chunk at all, reads the statuses it was sent before it sends the next   *)
(* one, and closes its side when it likes.                                 *)

RawPayload(n) == [i \in 1..n |-> 9]

RawChunks ==
    {[id |-> id, path |-> path, total |-> total, offset |-> offset,
      data |-> RawPayload(n),
      checksum |-> IF good THEN Sha256(RawPayload(n)) ELSE Sha256(<<0>> \o RawPayload(n)),
      isLast |-> last] :
        id \in FileIds, path \in RawChunkPaths, total \in 0..MaxRawSize,
        offset \in 0..MaxRawSize, n \in 0..MaxRawSize, good \in BOOLEAN,
        last \in BOOLEAN}

\* ReceiveFile takes a raw client's chunk off the stream
ReceiveFromRaw ==
    /\ driver = "raw"
    /\ rcv.pc = "recv"
    /\ ~closedSend
    /\ rawCount < MaxRaw
    /\ \E chunk \in RawChunks : Commit(ReceiveChunk(Before, chunk), <<>>)
    /\ rawCount' = rawCount + 1
    /\ UNCHANGED <<pv, driver, src, snd, c2s, closedSend, disk, fts, ftsFS, cli, hnd, sideVars>>

\* the raw client closes its side of the stream
RawCloseSend ==
    /\ driver = "raw"
    /\ ~closedSend
    /\ closedSend' = TRUE
    /\ UNCHANGED <<pv, driver, src, snd, c2s, s2c, rcv, dest, disk, tracker, rawCount,
                   ghost, fts, ftsFS, cli, hnd, sideVars>>

-----------------------------------------------------------------------------
(* server: FileTransferServer.Transfer, one handler run on one stream.     *)
(* A TransferRequest is a record of its oneof payload: kind is "metadata", *)
(* "chunk", "complete" or "nil" (no payload set); the fields of the other  *)
(* payloads hold their zero values.                                        *)

\* the directory NewFileTransferServer is given
rootDir == <<"/", "r">>

\* bytes one stream carries before the client stops sending chunks
MaxFtsBytes == 3

MetaPaths == StringsUpTo(MaxMetaLen)

\* the FileSize values a client declares in its metadata
FtsFileSizes == {0, 2}

FtsRequest(kind, path, n, count) ==
    [kind |-> kind, path |-> path, fileSize |-> 0, data |-> RawPayload(n),
     count |-> count]

FtsMetadata ==
    {[FtsRequest("metadata", path, 0, 0) EXCEPT !.fileSize = size] :
        path \in MetaPaths, size \in FtsFileSizes}
\* the Data of a chunk message: bytes 8 and 9
FtsPayloads == UNION {[1..n -> {8, 9}] : n \in 0..MaxRawSize}
FtsChunks == {[FtsRequest("chunk", <<>>, 0, 0) EXCEPT !.data = d] : d \in FtsPayloads}
FtsCompletes == {FtsRequest("complete", <<>>, 0, count) : count \in 0..MaxFtsBytes}
FtsNil == FtsRequest("nil", <<>>, 0, 0)
FtsRequests == FtsMetadata \cup FtsChunks \cup FtsCompletes \cup {FtsNil}

\* the server's disk before the stream: rootDir, holding one older file
FtsFSStart == [dirs |-> {Slash, rootDir},
               files |-> (<<"/", "r", "/", "r">> :> OldContent)]

\* first is the first message of the stream, once it has been received
FtsIdle == [pc |-> "off", code |-> "none", first |-> <<>>, req |-> FtsNil,
            targetPath |-> <<>>, got |-> <<>>,
            bytesReceived |-> 0, transferSuccess |-> FALSE, sent |-> <<>>]

FtsStart == [FtsIdle EXCEPT !.pc = "metadata"]

\* the path and every directory above it
RECURSIVE Ancestors(_)
Ancestors(path) ==
    IF Dir(path) = path THEN {path} ELSE {path} \cup Ancestors(Dir(path))

\* os.MkdirAll fails when a file stands where a directory is needed
FtsMkdirAllOk(fs, dir) == Ancestors(dir) \cap DOMAIN fs.files = {}

FtsMkdirAll(fs, dir) == [fs EXCEPT !.dirs = @ \cup Ancestors(dir)]

\* os.Create fails on a directory; it truncates a file that exists
FtsCreateOk(fs, path) == path \notin fs.dirs /\ Dir(path) \in fs.dirs

FtsCreate(fs, path) ==
    [fs EXCEPT !.files = [f \in DOMAIN @ \cup {path} |->
                             IF f = path THEN <<>> ELSE @[f]]]

\* a variant of the deferred function that leaves the file where it is
FtsRemoveNothing(fs, path) == fs

\* os.Remove of the target file
FtsRemove(fs, path) ==
    [fs EXCEPT !.files = [f \in DOMAIN @ \ {path} |-> @[f]]]

\* a variant of the type assertion below that takes any payload
AnyPayload(req) == TRUE

\* req.Payload.(*pb.TransferRequest_Metadata)
IsMetadata(req) == req.kind = "metadata"

\* a variant of the path check below without the ".." prefix test
FtsPathAbsolute(cleanPath) == IsAbs(cleanPath)

\* the path check on the cleaned metadata path
FtsPathInvalid(cleanPath) == HasPrefix(cleanPath, DotDot) \/ IsAbs(cleanPath)

\* return status.Errorf(code, ...) before the file is created
FtsReject(got, code) ==
    /\ fts' = [got EXCEPT !.pc = "returned", !.code = code]
    /\ ftsFS' = ftsFS

\* a return from the chunk loop: the deferred function closes the file and
\* removes it unless transferSuccess was set
FtsReturn(req, code, success, sent) ==
    /\ fts' = [fts EXCEPT !.pc = "returned", !.code = code, !.req = req,
                          !.transferSuccess = success, !.sent = sent]
    /\ ftsFS' = IF success THEN ftsFS ELSE FtsRemove(ftsFS, fts.targetPath)

\* Step 1: the first message, the path check, MkdirAll and Create
FtsRecvFirst ==
    /\ fts.pc = "metadata"
    /\ \E req \in FtsRequests :
          LET cleanPath == Clean(req.path)
              targetPath == Join(rootDir, cleanPath)
              made == FtsMkdirAll(ftsFS, Dir(targetPath))
              got == [fts EXCEPT !.req = req, !.first = <<req>>]
          IN  IF ~IsMetadata(req) THEN FtsReject(got, "InvalidArgument")
              ELSE IF FtsPathInvalid(cleanPath) THEN FtsReject(got, "InvalidArgument")
              ELSE IF ~FtsMkdirAllOk(ftsFS, Dir(targetPath))
                   THEN FtsReject(got, "Internal")
              ELSE IF ~FtsCreateOk(made, targetPath)
                   THEN /\ fts' = [got EXCEPT !.pc = "returned", !.code = "Internal"]
                        /\ ftsFS' = made
              ELSE /\ fts' = [got EXCEPT !.pc = "chunks", !.targetPath = targetPath]
                   /\ ftsFS' = FtsCreate(made, targetPath)
    /\ UNCHANGED <<pv, xferVars, callerVars, sideVars>>

\* stream.Recv fails (the client is gone) before or after the metadata
FtsRecvFailed ==
    /\ \/ fts.pc = "metadata" /\ FtsReject(fts, "Internal")
       \/ fts.pc = "chunks" /\ FtsReturn(fts.req, "Internal", FALSE, fts.sent)
    /\ UNCHANGED <<pv, xferVars, callerVars, sideVars>>

\* Step 2: a chunk is written at the end of the file, or file.Write fails
\* (got is the data of the chunk messages received, in their order)
FtsRecvChunk ==
    /\ fts.pc = "chunks"
    /\ \E req \in FtsChunks, written \in BOOLEAN :
          /\ fts.bytesReceived + Len(req.data) <= MaxFtsBytes
          /\ IF written
             THEN /\ fts' = [fts EXCEPT !.req = req, !.got = @ \o req.data,
                                        !.bytesReceived = @ + Len(req.data)]
                  /\ ftsFS' = [ftsFS EXCEPT !.files[fts.targetPath] = @ \o req.data]
             ELSE FtsReturn(req, "Internal", FALSE, fts.sent)
    /\ UNCHANGED <<pv, xferVars, callerVars, sideVars>>

\* Step 3: the completion message and its byte count, file.Sync and the
\* success response, either of which may fail
FtsRecvComplete ==
    /\ fts.pc = "chunks"
    /\ \E req \in FtsCompletes, fault \in {"none", "sync", "send"} :
          IF fts.bytesReceived # req.count
          THEN FtsReturn(req, "DataLoss", FALSE, fts.sent)
          ELSE IF fault = "sync" THEN FtsReturn(req, "Internal", FALSE, fts.sent)
          ELSE IF fault = "send" THEN FtsReturn(req, "Unavailable", FALSE, fts.sent)
          ELSE FtsReturn(req, "OK", TRUE,
                         Append(fts.sent, [success |-> TRUE,
                                           bytesReceived |-> fts.bytesReceived]))
    /\ UNCHANGED <<pv, xferVars, callerVars, sideVars>>

\* any other message in the chunk loop
FtsRecvUnexpected ==
    /\ fts.pc = "chunks"
    /\ \E req \in {FtsNil, FtsRequest("metadata", <<>>, 0, 0)} :
          FtsReturn(req, "InvalidArgument", FALSE, fts.sent)
    /\ UNCHANGED <<pv, xferVars, callerVars, sideVars>>

NextFTS ==
    \/ FtsRecvFirst
    \/ FtsRecvFailed
    \/ FtsRecvChunk
    \/ FtsRecvComplete
    \/ FtsRecvUnexpected

-----------------------------------------------------------------------------
(* internal/grpc: Client.TransferFiles and Client.transferSingleFile.  A   *)
(* stream and the SendFile call on it are taken with their outcome: the    *)
(* stream cannot be created, the transport fails, the receiver answers     *)
(* with an error status for the destination path, or the file is sent.     *)

\* NewClient: retryCount
retryCount == 3
\* NewClient: retryDelay, in seconds
retryDelay == 2
\* README, Technical Specifications: "Retry: Maximum 3 attempts"
ReadmeMaxAttempts == 3

\* files PrepareFiles returns for one request
MaxFiles == 2

\* the destPath arguments of TransferFiles
ClientDests == {<<>>, <<"/", "l">>, <<"r">>, <<"e", "/">>}

\* the FilePath SendFile puts in its chunks for destPath
ChunkPathFor(destPath) ==
    IF destPath # <<>> THEN Join(destPath, Base(SrcPath)) ELSE Base(SrcPath)

\* the receiver's ValidateDestPath refuses the chunks' FilePath
DestRejected(destPath) == ValidateDestPath(ChunkPathFor(destPath)).err # "nil"

CliIdle == [pc |-> "off", nfiles |-> 0, rejected |-> FALSE, idx |-> 0,
            attempt |-> 0, slept |-> 0, lastErr |-> "nil", ret |-> "none",
            named |-> 0, dest |-> <<>>, chunkPath |-> <<>>,
            wrapped |-> "nil", failed |-> 0, delivered |-> {}, log |-> <<>>]

\* TransferFiles is called; files 1..n are the prepared list, in order
CliStart(n, destPath) ==
    [CliIdle EXCEPT !.pc = "loop", !.nfiles = n, !.idx = 1, !.dest = destPath,
                    !.rejected = DestRejected(destPath)]

\* a variant of the loop condition below that stops one attempt earlier
FewerAttempts(attempt) == attempt < retryCount

\* the loop condition of transferSingleFile
MoreAttempts(attempt) == attempt <= retryCount

\* a variant of the test below under which TransferFiles goes on
NeverAbort(err) == FALSE

\* TransferFiles: if err := c.transferSingleFile(...); err != nil
FailFast(err) == err # "nil"

\* what SendFile returns on a stream of this request
SendOutcomes(c) ==
    {"transport"} \cup (IF c.rejected THEN {"invalid destination path"} ELSE {"nil"})

Event(ev, file, what) == [ev |-> ev, file |-> file, what |-> what]

\* transferSingleFile has returned err for the current file: the loop of
\* TransferFiles returns it, or goes on to the next file, or returns nil
AfterFile(c, err) ==
    IF FailFast(err)
    THEN [c EXCEPT !.pc = "done", !.ret = err, !.failed = c.idx]
    ELSE IF c.idx < c.nfiles
    THEN [c EXCEPT !.idx = @ + 1, !.attempt = 0, !.slept = 0, !.lastErr = "nil",
                   !.pc = "loop"]
    ELSE [c EXCEPT !.pc = "done", !.ret = "nil"]

\* the head of the retry loop: the condition, and the delay before a retry
ClientLoop ==
    /\ cli.pc = "loop"
    /\ cli' = IF MoreAttempts(cli.attempt)
              THEN [cli EXCEPT
                      !.pc = "stream",
                      !.slept = IF cli.attempt > 0 THEN @ + retryDelay ELSE @,
                      !.log = IF cli.attempt > 0
                              THEN Append(@, Event("sleep", cli.idx, "delay"))
                              ELSE @]
              ELSE AfterFile([cli EXCEPT !.named = retryCount,
                                         !.wrapped = cli.lastErr],
                             "failed after retries")
    /\ UNCHANGED <<pv, xferVars, ftsVars, hnd, sideVars>>

\* c.client.TransferFile(ctx)
ClientStream ==
    /\ cli.pc = "stream"
    /\ \E ok \in BOOLEAN :
          cli' = IF ok
                 THEN [cli EXCEPT !.pc = "send",
                                  !.log = Append(@, Event("stream", cli.idx, "nil"))]
                 ELSE [cli EXCEPT !.pc = "loop", !.attempt = @ + 1,
                                  !.lastErr = "failed to create stream",
                                  !.log = Append(@, Event("stream", cli.idx,
                                                          "failed to create stream"))]
    /\ UNCHANGED <<pv, xferVars, ftsVars, hnd, sideVars>>

\* c.sender.SendFile(filePath, destPath, stream), then stream.CloseSend()
ClientSend ==
    /\ cli.pc = "send"
    /\ \E err \in SendOutcomes(cli) :
          LET c == [cli EXCEPT !.log = Append(@, Event("send", cli.idx, err)),
                               !.chunkPath = ChunkPathFor(cli.dest)]
          IN  cli' = IF err # "nil"
                     THEN [c EXCEPT !.pc = "loop", !.attempt = @ + 1, !.lastErr = err]
                     ELSE AfterFile([c EXCEPT !.delivered = @ \cup {c.idx}], "nil")
    /\ UNCHANGED <<pv, xferVars, ftsVars, hnd, sideVars>>

NextClient ==
    \/ ClientLoop
    \/ ClientStream
    \/ ClientSend

-----------------------------------------------------------------------------
(* internal/http: Handler.handleTransfer.  The transfer runs in its own    *)
(* goroutine (the sender and receiver above); the handler waits in its     *)
(* select for the request context, the transfer's result, or the ticker.   *)

HndIdle == [pc |-> "off", ctxDone |-> FALSE, event |-> "none", chunksAtCancel |-> 0]

HndStart == [HndIdle EXCEPT !.pc = "select"]

\* the HTTP client goes away: r.Context(), and so ctx, is done
RequestCancelled ==
    /\ hnd.pc = "select"
    /\ ~hnd.ctxDone
    /\ hnd' = [hnd EXCEPT !.ctxDone = TRUE]
    /\ UNCHANGED <<pv, xferVars, ftsVars, cli, sideVars>>

\* case <-ctx.Done()
HandlerCancelled ==
    /\ hnd.pc = "select"
    /\ hnd.ctxDone
    /\ hnd' = [hnd EXCEPT !.pc = "returned", !.event = "Client disconnected",
                          !.chunksAtCancel = Len(ghost.chunks)]
    /\ UNCHANGED <<pv, xferVars, ftsVars, cli, sideVars>>

\* case err := <-errChan
HandlerResult ==
    /\ hnd.pc = "select"
    /\ snd.pc = "closed"
    /\ hnd' = [hnd EXCEPT !.pc = "returned",
                          !.event = IF snd.ret = "nil" THEN "completed" ELSE "error"]
    /\ UNCHANGED <<pv, xferVars, ftsVars, cli, sideVars>>

-----------------------------------------------------------------------------
(* internal/progress: one Tracker shared by goroutines.  Here the map      *)
(* holds pointers: transfers[id] is 0 (no key) or the index of a           *)
(* FileProgress object in entries, and every lock operation of the code is *)
(* a step, so that what a goroutine sees between two steps of another is   *)
(* part of the state.                                                      *)

\* tracker calls one goroutine makes
MaxCalls == 2

Goroutines == {"g1", "g2"}
TrackerIds == {"A", "B"}
\* the totalSize given to StartTransfer, the bytesTransferred to UpdateProgress
TrackerTotals == {2}
TrackerBytes == {1}

\* sync.RWMutex: the goroutines holding it for reading, the one holding it
\* for writing, and the one that called Lock and waits for the readers
\* (a waiting writer keeps new readers out)
Unlocked == [readers |-> {}, writer |-> "", waiting |-> ""]
CanRLock(m) == m.writer = "" /\ m.waiting = ""
RLock(m, g) == [m EXCEPT !.readers = @ \cup {g}]
RUnlock(m, g) == [m EXCEPT !.readers = @ \ {g}]
CanAnnounce(m) == m.writer = "" /\ m.waiting = ""
Announce(m, g) == [m EXCEPT !.waiting = g]
CanLock(m, g) == m.waiting = g /\ m.readers = {}
Lock(m, g) == [m EXCEPT !.writer = g, !.waiting = ""]
Unlock(m, g) == [m EXCEPT !.writer = ""]
Holds(m, g) == g \in m.readers \/ m.writer = g

\* the FileProgress StartTransfer builds
NewFileProgress(totalSize) ==
    [status |-> "in_progress", total |-> totalSize, bytes |-> 0, err |-> ""]

\* the field writes of UpdateProgress, CompleteTransfer and FailTransfer
WriteEntry(fp, op, arg) ==
    CASE op = "update"   -> [fp EXCEPT !.bytes = arg]
      [] op = "complete" -> [fp EXCEPT !.status = "completed"]
      [] op = "fail"     -> [fp EXCEPT !.status = "error", !.err = "e"]
      [] OTHER           -> fp

\* a lookup that answers with the entry of "A" whatever the identifier
EntryOfA(transfers, id) == transfers["A"]

\* progress, exists := t.transfers[fileID]
EntryOf(transfers, id) == transfers[id]

\* a lookup that keeps the registry lock when it returns
HoldRegistry(m, g) == m

\* t.mu.RUnlock() after the lookup
ReleaseRegistry(m, g) == RUnlock(m, g)

GoIdle ==
    [pc |-> "idle", op |-> "none", id |-> "", arg |-> 0, progress |-> 0,
     calls |-> 0, ret |-> "none", got |-> 0, seen |-> NoEntry, pct |-> 0]

TkIdle ==
    [transfers |-> [id \in TrackerIds |-> 0], entries |-> <<>>, mu |-> Unlocked,
     emu |-> <<>>, gs |-> [g \in Goroutines |-> [GoIdle EXCEPT !.pc = "off"]]]

TkStart == [TkIdle EXCEPT !.gs = [g \in Goroutines |-> GoIdle]]

\* the calls a goroutine may make next: [op, id, arg, pc]
TrackerCalls(me) ==
    {[op |-> "start", id |-> id, arg |-> n, pc |-> "lock"] :
        id \in TrackerIds, n \in TrackerTotals}
    \cup {[op |-> "update", id |-> id, arg |-> n, pc |-> "rlock"] :
        id \in TrackerIds, n \in TrackerBytes}
    \cup {[op |-> o, id |-> id, arg |-> 0, pc |-> "rlock"] :
        o \in {"complete", "fail", "get"}, id \in TrackerIds}
    \cup {[op |-> "percent", id |-> me.id, arg |-> 0, pc |-> "erlock"] :
        x \in IF me.got # 0 THEN {1} ELSE {}}

\* a goroutine calls a Tracker method, or GetProgressPercent on the
\* descriptor its last GetProgress returned
TkCall(g) ==
    LET me == tk.gs[g]
    IN  /\ me.pc = "idle"
        /\ me.calls < MaxCalls
        /\ \E c \in TrackerCalls(me) :
              tk' = [tk EXCEPT !.gs[g] =
                        [me EXCEPT !.pc = c.pc, !.op = c.op, !.id = c.id,
                                   !.arg = c.arg, !.progress = 0,
                                   !.calls = @ + 1, !.ret = "none"]]
        /\ UNCHANGED <<pv, xferVars, ftsVars, callerVars, srv, cn, rt>>

\* t.mu.RLock() of UpdateProgress, CompleteTransfer, FailTransfer, GetProgress
TkRLock(g) ==
    /\ tk.gs[g].pc = "rlock"
    /\ CanRLock(tk.mu)
    /\ tk' = [tk EXCEPT !.mu = RLock(@, g), !.gs[g].pc = "rlocked"]
    /\ UNCHANGED <<pv, xferVars, ftsVars, callerVars, srv, cn, rt>>

\* the lookup of UpdateProgress, CompleteTransfer, FailTransfer, the
\* RUnlock, and the return when the key is not in the map
TkLookup(g) ==
    LET me == tk.gs[g]
        progress == EntryOf(tk.transfers, me.id)
    IN  /\ me.pc = "rlocked"
        /\ me.op \in {"update", "complete", "fail"}
        /\ tk' = [tk EXCEPT
                    !.mu = ReleaseRegistry(@, g),
                    !.gs[g] = IF progress = 0
                              THEN [me EXCEPT !.pc = "idle", !.ret = "absent"]
                              ELSE [me EXCEPT !.pc = "elock",
                                              !.progress = progress]]
        /\ UNCHANGED <<pv, xferVars, ftsVars, callerVars, srv, cn, rt>>

\* Tracker.GetProgress returns the pointer the map holds, or nil
TkGetReturn(g) ==
    LET me == tk.gs[g]
        progress == EntryOf(tk.transfers, me.id)
    IN  /\ me.pc = "rlocked"
        /\ me.op = "get"
        /\ tk' = [tk EXCEPT
                    !.mu = RUnlock(@, g),
                    !.gs[g] = [me EXCEPT
                        !.pc = "idle",
                        !.ret = IF progress = 0 THEN "absent" ELSE "ok",
                        !.got = progress,
                        !.seen = IF progress = 0 THEN NoEntry
                                 ELSE tk.entries[progress]]]
        /\ UNCHANGED <<pv, xferVars, ftsVars, callerVars, srv, cn, rt>>

\* t.mu.Lock() of StartTransfer is called
TkLockAnnounce(g) ==
    /\ tk.gs[g].pc = "lock"
    /\ CanAnnounce(tk.mu)
    /\ tk' = [tk EXCEPT !.mu = Announce(@, g), !.gs[g].pc = "lockwait"]
    /\ UNCHANGED <<pv, xferVars, ftsVars, callerVars, srv, cn, rt>>

\* t.mu.Lock() of StartTransfer returns
TkLockAcquire(g) ==
    /\ tk.gs[g].pc = "lockwait"
    /\ CanLock(tk.mu, g)
    /\ tk' = [tk EXCEPT !.mu = Lock(@, g), !.gs[g].pc = "locked"]
    /\ UNCHANGED <<pv, xferVars, ftsVars, callerVars, srv, cn, rt>>

\* StartTransfer builds the FileProgress, stores it and unlocks
TkStartStore(g) ==
    LET me == tk.gs[g]
        progress == Len(tk.entries) + 1
    IN  /\ me.pc = "locked"
        /\ tk' = [tk EXCEPT
                    !.entries = Append(@, NewFileProgress(me.arg)),
                    !.emu = Append(@, Unlocked),
                    !.transfers[me.id] = progress,
                    !.mu = Unlock(@, g),
                    !.gs[g] = [me EXCEPT !.pc = "idle", !.ret = "ok",
                                         !.progress = progress]]
        /\ UNCHANGED <<pv, xferVars, ftsVars, callerVars, srv, cn, rt>>

\* progress.mu.Lock() is called
TkEntryAnnounce(g) ==
    LET me == tk.gs[g]
    IN  /\ me.pc = "elock"
        /\ CanAnnounce(tk.emu[me.progress])
        /\ tk' = [tk EXCEPT !.emu[me.progress] = Announce(@, g),
                            !.gs[g].pc = "elockwait"]
        /\ UNCHANGED <<pv, xferVars, ftsVars, callerVars, srv, cn, rt>>

\* progress.mu.Lock() returns
TkEntryAcquire(g) ==
    LET me == tk.gs[g]
    IN  /\ me.pc = "elockwait"
        /\ CanLock(tk.emu[me.progress], g)
        /\ tk' = [tk EXCEPT !.emu[me.progress] = Lock(@, g),
                            !.gs[g].pc = "elocked"]
        /\ UNCHANGED <<pv, xferVars, ftsVars, callerVars, srv, cn, rt>>

\* the field writes under progress.mu, and its Unlock
TkEntryWrite(g) ==
    LET me == tk.gs[g]
    IN  /\ me.pc = "elocked"
        /\ tk' = [tk EXCEPT
                    !.entries[me.progress] = WriteEntry(@, me.op, me.arg),
                    !.emu[me.progress] = Unlock(@, g),
                    !.gs[g] = [me EXCEPT !.pc = "idle", !.ret = "ok"]]
        /\ UNCHANGED <<pv, xferVars, ftsVars, callerVars, srv, cn, rt>>

\* fp.mu.RLock() of GetProgressPercent
TkEntryRLock(g) ==
    LET me == tk.gs[g]
    IN  /\ me.pc = "erlock"
        /\ CanRLock(tk.emu[me.got])
        /\ tk' = [tk EXCEPT !.emu[me.got] = RLock(@, g),
                            !.gs[g].pc = "erlocked"]
        /\ UNCHANGED <<pv, xferVars, ftsVars, callerVars, srv, cn, rt>>

\* GetProgressPercent computes its answer and unlocks
TkPercentReturn(g) ==
    LET me == tk.gs[g]
    IN  /\ me.pc = "erlocked"
        /\ tk' = [tk EXCEPT
                    !.emu[me.got] = RUnlock(@, g),
                    !.gs[g] = [me EXCEPT
                        !.pc = "idle", !.ret = "ok",
                        !.pct = GetProgressPercent(tk.entries[me.got])]]
        /\ UNCHANGED <<pv, xferVars, ftsVars, callerVars, srv, cn, rt>>

TkStep(g) ==
    \/ TkCall(g)
    \/ TkRLock(g)
    \/ TkLookup(g)
    \/ TkGetReturn(g)
    \/ TkLockAnnounce(g)
    \/ TkLockAcquire(g)
    \/ TkStartStore(g)
    \/ TkEntryAnnounce(g)
    \/ TkEntryAcquire(g)
    \/ TkEntryWrite(g)
    \/ TkEntryRLock(g)
    \/ TkPercentReturn(g)

NextTracker == \E g \in Goroutines : TkStep(g)

-----------------------------------------------------------------------------
(* The HTTP front end: Server.handleTransfer and Server.handleDelete, with *)
(* PathValidator (the rooting variant) on the disk above, on this process  *)
(* and on the peer.  A request path is "local:" or "peer:" and a path.     *)

Colon == <<":">>
Local == <<"l", "o", "c", "a", "l">>
Peer == <<"p", "e", "e", "r">>

\* strings.HasSuffix(s, p)
HasSuffix(s, p) == Len(p) <= Len(s) /\ SubSeq(s, Len(s) - Len(p) + 1, Len(s)) = p

\* strings.TrimSuffix(s, p)
TrimSuffix(s, p) == IF HasSuffix(s, p) THEN SubSeq(s, 1, Len(s) - Len(p)) ELSE s

\* index of the first colon of s, 0 if none
FirstColon(s) ==
    LET idx == {i \in 1..Len(s) : s[i] = ":"}
    IN  IF idx = {} THEN 0 ELSE CHOOSE i \in idx : \A j \in idx : i <= j

\* parsePathPrefix: strings.SplitN(path, ":", 2)
parsePathPrefix(path) ==
    LET i == FirstColon(path)
    IN  IF i = 0 THEN [prefix |-> <<>>, path |-> <<>>]
        ELSE [prefix |-> SubSeq(path, 1, i - 1),
              path |-> SubSeq(path, i + 1, Len(path))]

\* os.ReadDir(dirPath) and the recursion of listDirContents; a symbolic link
\* is listed as a file
RECURSIVE listDirContents(_)
listDirContents(dirElems) ==
    LET Entry(i) ==
            LET here == Append(dirElems, NameOrder[i])
                n == Node(here)
            IN  CASE n.kind = "none" -> <<>>
                  [] n.kind = "dir"  -> listDirContents(here)
                  [] OTHER           -> <<Slash \o JoinElems(here)>>
    IN  Entry(1) \o Entry(2) \o Entry(3) \o Entry(4)

\* os.Stat(path).IsDir()
IsDirectory(path) ==
    LET w == Walk(<<>>, Split(path))
    IN  w.ok /\ Node(w.elems).kind = "dir"

\* Server.expandWildcard: [err, matches]
expandWildcard(pattern) ==
    LET v == PathValidatorRooted(pattern)
        validPattern == CHOOSE p \in v.paths : TRUE
        matches == GlobSeq(validPattern)
        List(dirPath) ==
            IF IsDirectory(dirPath)
            THEN [err |-> "nil",
                  matches |-> listDirContents(Walk(<<>>, Split(dirPath)).elems)]
            ELSE [err |-> "readdir", matches |-> <<>>]
    IN  IF v.err # "nil" THEN [err |-> v.err, matches |-> <<>>]
        ELSE IF HasSuffix(pattern, <<"/", ".">>)
        THEN List(TrimSuffix(validPattern, <<"/", ".">>))
        ELSE IF HasSuffix(pattern, <<"/", "*">>)
        THEN [err |-> "nil", matches |-> matches]
        ELSE IF matches = <<>>
        THEN IF ~HasMagic(pattern)
             THEN IF IsDirectory(validPattern) THEN List(validPattern)
                  ELSE [err |-> "nil", matches |-> <<validPattern>>]
             ELSE [err |-> "nomatch", matches |-> <<>>]
        ELSE [err |-> "nil", matches |-> matches]

\* os.Open and file.Read of a match succeed: it is, or links to, a regular
\* file (reading a directory fails)
Readable(path) ==
    LET w == Walk(<<>>, Split(path))
    IN  w.ok /\ Node(w.elems).kind = "file"

\* ValidateAndEnsureDir and os.Create succeed for a destination path
Creatable(path) ==
    LET v == PathValidatorRooted(path)
        validPath == CHOOSE p \in v.paths : TRUE
    IN  v.err = "nil" /\ CreateOk(validPath)

\* the destination of one match
FinalDestPath(destPath, match) ==
    IF HasSuffix(destPath, Slash) THEN Join(destPath, Base(match)) ELSE destPath

\* the loop over the matches of transferLocalToPeer and of copyLocal: the
\* files done before the first failure, and whether one failed
RECURSIVE TransferLoop(_, _, _)
TransferLoop(matches, destPath, done) ==
    IF matches = <<>> THEN [err |-> "nil", done |-> done]
    ELSE LET match == Head(matches)
             final == FinalDestPath(destPath, match)
         IN  IF Readable(match) /\ Creatable(final)
             THEN TransferLoop(Tail(matches), destPath, done \cup {<<match, final>>})
             ELSE [err |-> "failed", done |-> done]

\* os.Remove(path) succeeds: a file, or a directory with nothing in it
RemoveOk(path) ==
    \/ Lstat(path).kind \in {"file", "link"}
    \/ Lstat(path).kind = "dir" /\ listDirContents(Walk(<<>>, Split(path)).elems) = <<>>
                                /\ \A i \in DOMAIN NameOrder :
                                      Node(Append(Walk(<<>>, Split(path)).elems,
                                                  NameOrder[i])).kind = "none"

\* ValidatePath and os.Remove of handleDelete (local) and DeleteFile (peer)
DeleteOutcome(path) ==
    LET v == PathValidatorRooted(path)
        validPath == CHOOSE p \in v.paths : TRUE
    IN  IF v.err # "nil" THEN [ok |-> FALSE, removed |-> {}]
        ELSE IF ~RemoveOk(validPath) THEN [ok |-> FALSE, removed |-> {}]
        ELSE [ok |-> TRUE, removed |-> {validPath}]

\* the prefixes a request path may start with, by name
SrvPrefixes ==
    [local |-> Local \o Colon, peer |-> Peer \o Colon, other |-> <<"r">> \o Colon,
     empty |-> Colon, none |-> <<>>]

\* the paths a request may name: a file, a name that is not there, a
\* pattern nothing matches, an empty directory with and without a pattern,
\* a link out of the directory, the directory itself as a destination
SrvPaths ==
    {<<"/", "r">>, <<"/", "n">>, <<"/", "n", "*">>,
     <<"/", "e", "/", "*">>, <<"/", "e", "/", ".">>, <<"/", "e">>,
     <<"/", "l", "/", "r">>, <<"/">>}

\* what the disks answer: the expansion of a source path, the loop over its
\* matches towards a destination path, the removal of a path
SrvDisk ==
    [expand |-> [p \in SrvPaths |-> expandWildcard(p)],
     loop |-> [pq \in SrvPaths \X SrvPaths |->
                 TransferLoop(expandWildcard(pq[1]).matches, pq[2], {})],
     del |-> [p \in SrvPaths |-> DeleteOutcome(p)]]

SrvIdle ==
    [pc |-> "off", kind |-> "none", source |-> <<>>, dest |-> <<>>,
     srcTag |-> "none", destTag |-> "none", out |-> <<>>, sent |-> {},
     copied |-> {}, removedLocal |-> {}, removedPeer |-> {}, disk |-> <<>>]

\* the request bodies the handlers decode
SrvRequests ==
    {[SrvIdle EXCEPT !.pc = "request", !.kind = "transfer",
                     !.source = SrvPrefixes[a] \o p, !.srcTag = a,
                     !.dest = SrvPrefixes[b] \o q, !.destTag = b] :
        a \in DOMAIN SrvPrefixes, b \in DOMAIN SrvPrefixes,
        p \in SrvPaths, q \in SrvPaths}
    \cup {[SrvIdle EXCEPT !.pc = "request", !.kind = "delete",
                          !.source = SrvPrefixes[a] \o p, !.srcTag = a] :
        a \in DOMAIN SrvPrefixes, p \in SrvPaths}

\* the server between requests, its disk in hand
SrvListening == [SrvIdle EXCEPT !.pc = "listening", !.disk = SrvDisk]

\* Server.handleTransfer, from the decoded request to its last message
SrvHandleTransfer ==
    \E req \in SrvRequests :
        LET s == parsePathPrefix(req.source)
            d == parsePathPrefix(req.dest)
            m == srv.disk.expand[s.path]
            loop == srv.disk.loop[<<s.path, d.path>>]
            started == Append(req.out, "info")
            Answer(type) ==
                [req EXCEPT !.pc = "done", !.disk = srv.disk,
                            !.out = Append(started, type)]
        IN  /\ srv.pc = "listening"
            /\ req.kind = "transfer"
            /\ srv' =
                 IF s.prefix = <<>> \/ d.prefix = <<>> THEN Answer("error")
                 ELSE IF s.prefix = Local /\ d.prefix = Peer
                 THEN IF m.err # "nil" THEN Answer("error")
                      ELSE IF loop.err # "nil"
                      THEN [Answer("error") EXCEPT !.sent = loop.done]
                      ELSE [Answer("completed") EXCEPT !.sent = loop.done]
                 ELSE IF s.prefix = Peer /\ d.prefix = Local THEN Answer("error")
                 ELSE IF s.prefix = Local /\ d.prefix = Local
                 THEN IF m.err # "nil" THEN Answer("error")
                      ELSE IF loop.err # "nil"
                      THEN [Answer("error") EXCEPT !.copied = loop.done]
                      ELSE [Answer("completed") EXCEPT !.copied = loop.done]
                 ELSE Answer("error")
            /\ UNCHANGED <<pv, xferVars, ftsVars, callerVars, tk, cn, rt>>

\* Server.handleDelete, from the decoded request to its response
SrvHandleDelete ==
    \E req \in SrvRequests :
        LET f == parsePathPrefix(req.source)
            del == srv.disk.del[f.path]
            Answer(ok) ==
                [req EXCEPT !.pc = "done", !.disk = srv.disk,
                            !.out = Append(@, IF ok THEN "success" ELSE "error")]
        IN  /\ srv.pc = "listening"
            /\ req.kind = "delete"
            /\ srv' =
                 IF f.prefix = <<>> THEN Answer(FALSE)
                 ELSE IF f.prefix = Local
                 THEN [Answer(del.ok) EXCEPT !.removedLocal = del.removed]
                 ELSE [Answer(del.ok) EXCEPT !.removedPeer = del.removed]
            /\ UNCHANGED <<pv, xferVars, ftsVars, callerVars, tk, cn, rt>>

NextServer == SrvHandleTransfer \/ SrvHandleDelete

-----------------------------------------------------------------------------
(* internal/grpc: one Client called by several HTTP requests.  Each        *)
(* request runs Client.TransferFiles in a goroutine of its own; the fields *)
(* conn and client of the Client are read and written without a lock, so   *)
(* every read and every write is a step.  A connection is its number in    *)
(* the order grpc.Dial created them, 0 is nil.                             *)

\* the HTTP requests that reach Handler.handleTransfer
ConnRequests == {"q1", "q2", "q3"}

CnIdle ==
    [conn |-> 0, client |-> 0, dials |-> 0, connects |-> 0,
     rs |-> [q \in ConnRequests |-> [pc |-> "off", dialed |-> 0, ret |-> "none"]]]

CnStart == [CnIdle EXCEPT !.rs = [q \in ConnRequests |-> [@[q] EXCEPT !.pc = "idle"]]]

\* handleTransfer: go func() { errChan <- h.client.TransferFiles(...) }()
CnCall(q) ==
    /\ cn.rs[q].pc = "idle"
    /\ cn' = [cn EXCEPT !.rs[q].pc = "check"]
    /\ UNCHANGED <<pv, xferVars, ftsVars, callerVars, tk, srv, rt>>

\* TransferFiles: if c.conn == nil { c.Connect() ... }
CnCheck(q) ==
    /\ cn.rs[q].pc = "check"
    /\ cn' = IF cn.conn = 0
             THEN [cn EXCEPT !.rs[q].pc = "dial", !.connects = @ + 1]
             ELSE [cn EXCEPT !.rs[q].pc = "transfer"]
    /\ UNCHANGED <<pv, xferVars, ftsVars, callerVars, tk, srv, rt>>

\* Connect: grpc.Dial returns a new connection, or nil and an error
CnDial(q) ==
    /\ cn.rs[q].pc = "dial"
    /\ \E ok \in BOOLEAN :
          cn' = IF ok
                THEN [cn EXCEPT !.rs[q].pc = "store", !.dials = @ + 1,
                                !.rs[q].dialed = cn.dials + 1]
                ELSE [cn EXCEPT !.rs[q].pc = "store", !.rs[q].dialed = 0]
    /\ UNCHANGED <<pv, xferVars, ftsVars, callerVars, tk, srv, rt>>

\* Connect: the assignment c.conn, err = ..., and the return on an error
CnStore(q) ==
    /\ cn.rs[q].pc = "store"
    /\ cn' = IF cn.rs[q].dialed = 0
             THEN [cn EXCEPT !.conn = 0, !.rs[q].pc = "done",
                             !.rs[q].ret = "failed to connect to peer"]
             ELSE [cn EXCEPT !.conn = cn.rs[q].dialed, !.rs[q].pc = "client"]
    /\ UNCHANGED <<pv, xferVars, ftsVars, callerVars, tk, srv, rt>>

\* Connect: c.client = pb.NewFileTransferClient(c.conn)
CnClient(q) ==
    /\ cn.rs[q].pc = "client"
    /\ cn' = [cn EXCEPT !.client = cn.conn, !.rs[q].pc = "transfer"]
    /\ UNCHANGED <<pv, xferVars, ftsVars, callerVars, tk, srv, rt>>

\* the rest of TransferFiles, on whatever c.client is by then
CnTransfer(q) ==
    /\ cn.rs[q].pc = "transfer"
    /\ \E err \in {"nil", "failed"} :
          cn' = [cn EXCEPT !.rs[q].pc = "done", !.rs[q].ret = err]
    /\ UNCHANGED <<pv, xferVars, ftsVars, callerVars, tk, srv, rt>>

CnStep(q) ==
    \/ CnCall(q)
    \/ CnCheck(q)
    \/ CnDial(q)
    \/ CnStore(q)
    \/ CnClient(q)
    \/ CnTransfer(q)

NextConnect == \E q \in ConnRequests : CnStep(q)

-----------------------------------------------------------------------------
(* internal/grpc: the attempts of Client.transferSingleFile, each on a     *)
(* stream of its own with a run of Receiver.ReceiveFile of its own on the  *)
(* peer.  The runs of ReceiveFile share the peer's disk and Tracker; a     *)
(* stream delivers in order, after any delay.                              *)

\* uuid.New().String() of the SendFile calls that are followed
RetryIds == <<"A", "B">>

\* the source file of the retried transfer: one chunk, or two
RetrySources == {[i \in 1..n |-> 1] : n \in {1, ChunkSize + 1}}

RtIdle ==
    [pc |-> "off", attempt |-> 0, offset |-> 0, total |-> 0, err |-> "nil",
     ret |-> "none", streams |-> <<>>]

RtStart == [RtIdle EXCEPT !.pc = "loop"]

\* c.client.TransferFile(ctx): a stream, and the handler the peer starts for it
RtNewStream == [c2s |-> <<>>, s2c |-> <<>>, closed |-> FALSE, rcv |-> RcvStart]

\* the stream of the attempt under way, and the fileID of its SendFile call
RtCur == Len(rt.streams)
RtFileId == RetryIds[RtCur]

\* for attempt := 0; attempt <= c.retryCount; attempt++
RtLoop ==
    /\ rt.pc = "loop"
    /\ rt' = IF MoreAttempts(rt.attempt)
             THEN [rt EXCEPT !.pc = "stream"]
             ELSE [rt EXCEPT !.pc = "done", !.ret = "failed after retries"]
    /\ UNCHANGED <<pv, xferVars, ftsVars, callerVars, tk, srv, cn>>

\* time.Sleep(c.retryDelay) before a retry, then c.client.TransferFile(ctx)
RtStream ==
    /\ rt.pc = "stream"
    /\ \E ok \in BOOLEAN :
          IF ok
          THEN /\ Len(rt.streams) < Len(RetryIds)
               /\ rt' = [rt EXCEPT !.pc = "start",
                                   !.streams = Append(@, RtNewStream)]
          ELSE rt' = [rt EXCEPT !.pc = "loop", !.attempt = @ + 1,
                                !.err = "failed to create stream"]
    /\ UNCHANGED <<pv, xferVars, ftsVars, callerVars, tk, srv, cn>>

\* SendFile: os.Open, file.Stat, uuid.New, tracker.StartTransfer
RtSendStart ==
    /\ rt.pc = "start"
    /\ rt' = [rt EXCEPT !.pc = "send", !.total = Len(src), !.offset = 0,
                        !.err = "nil"]
    /\ tracker' = [tracker EXCEPT !.snd = StartTransfer(@, RtFileId, Len(src))]
    /\ UNCHANGED <<pv, driver, src, snd, c2s, s2c, closedSend, rcv, dest, disk,
                   rawCount, ghost, fts, ftsFS, cli, hnd, tk, srv, cn>>

\* SendFile: one iteration of "Send file in chunks"
RtSendChunk ==
    /\ rt.pc = "send"
    /\ LET n == ReadLen(src, rt.offset)
           chunk == [MakeChunk(src, rt.offset, n, rt.total) EXCEPT !.id = RtFileId]
       IN  IF n = 0
           THEN /\ rt' = [rt EXCEPT !.pc = "status"]
                /\ UNCHANGED tracker
           ELSE /\ rt' = [rt EXCEPT !.streams[RtCur].c2s = Append(@, chunk),
                                    !.offset = @ + n,
                                    !.pc = IF chunk.isLast THEN "status" ELSE "send"]
                /\ tracker' = [tracker EXCEPT
                                 !.snd = UpdateProgress(@, RtFileId, rt.offset + n)]
    /\ UNCHANGED <<pv, driver, src, snd, c2s, s2c, closedSend, rcv, dest, disk,
                   rawCount, ghost, fts, ftsFS, cli, hnd, tk, srv, cn>>

\* SendFile: file.Read, stream.Send or stream.Recv returns an error
RtSendFault ==
    /\ rt.pc \in {"send", "status"}
    /\ rt' = [rt EXCEPT !.pc = "close", !.err = "failed"]
    /\ tracker' = [tracker EXCEPT !.snd = FailTransfer(@, RtFileId, "failed")]
    /\ UNCHANGED <<pv, driver, src, snd, c2s, s2c, closedSend, rcv, dest, disk,
                   rawCount, ghost, fts, ftsFS, cli, hnd, tk, srv, cn>>

\* SendFile: one iteration of "Receive status updates"
RtStatus ==
    /\ rt.pc = "status"
    /\ LET s == rt.streams[RtCur]
       IN  IF s.s2c # <<>>
           THEN LET status == Head(s.s2c)
                    read == [rt EXCEPT !.streams[RtCur].s2c = Tail(@)]
                IN  CASE status.kind = "error" ->
                           /\ rt' = [read EXCEPT !.pc = "close", !.err = status.msg]
                           /\ tracker' = [tracker EXCEPT
                                 !.snd = FailTransfer(@, RtFileId, status.msg)]
                      [] StatusCompleted(status) ->
                           /\ rt' = [read EXCEPT !.pc = "close"]
                           /\ tracker' = [tracker EXCEPT
                                 !.snd = CompleteTransfer(@, RtFileId)]
                      [] OTHER -> rt' = read /\ UNCHANGED tracker
           ELSE /\ s.rcv.pc = "returned"
                /\ IF s.rcv.ret = "nil"
                   THEN rt' = [rt EXCEPT !.pc = "close"] /\ UNCHANGED tracker
                   ELSE /\ rt' = [rt EXCEPT !.pc = "close", !.err = "rpc error"]
                        /\ tracker' = [tracker EXCEPT
                              !.snd = FailTransfer(@, RtFileId, "rpc error")]
    /\ UNCHANGED <<pv, driver, src, snd, c2s, s2c, closedSend, rcv, dest, disk,
                   rawCount, ghost, fts, ftsFS, cli, hnd, tk, srv, cn>>

\* stream.CloseSend(), then continue with the next attempt or return nil
RtCloseSend ==
    /\ rt.pc = "close"
    /\ rt' = IF rt.err # "nil"
             THEN [rt EXCEPT !.streams[RtCur].closed = TRUE, !.pc = "loop",
                             !.attempt = @ + 1]
             ELSE [rt EXCEPT !.streams[RtCur].closed = TRUE, !.pc = "done",
                             !.ret = "nil"]
    /\ UNCHANGED <<pv, xferVars, ftsVars, callerVars, tk, srv, cn>>

\* what the run of ReceiveFile on stream i reads and writes in one iteration
RtBefore(i) ==
    [rcv |-> rt.streams[i].rcv, dest |-> dest, trk |-> tracker.rcv, out |-> <<>>,
     ghost |-> ghost, ok |-> TRUE]

\* the iteration's effects, written back; rest is what is still in flight
RtCommit(i, st, rest) ==
    /\ rt' = [rt EXCEPT !.streams[i].rcv = st.rcv,
                        !.streams[i].s2c = @ \o st.out,
                        !.streams[i].c2s = rest]
    /\ dest' = st.dest
    /\ tracker' = [tracker EXCEPT !.rcv = st.trk]
    /\ ghost' = [st.ghost EXCEPT
                   !.log = @ \o [k \in DOMAIN st.out |->
                                    <<st.out[k].id, st.out[k].kind>>]]

\* the run of ReceiveFile on stream i takes the next chunk off its stream
RtReceive(i) ==
    /\ rt.streams[i].rcv.pc = "recv"
    /\ rt.streams[i].c2s # <<>>
    /\ RtCommit(i, ReceiveChunk(RtBefore(i), Head(rt.streams[i].c2s)),
                Tail(rt.streams[i].c2s))
    /\ UNCHANGED <<pv, driver, src, snd, c2s, s2c, closedSend, rcv, disk,
                   rawCount, fts, ftsFS, cli, hnd, tk, srv, cn>>

\* stream.Recv of the run on stream i returns io.EOF
RtReceiveEOF(i) ==
    /\ rt.streams[i].rcv.pc = "recv"
    /\ rt.streams[i].c2s = <<>>
    /\ rt.streams[i].closed
    /\ RtCommit(i, ReceiveEOF(RtBefore(i)), <<>>)
    /\ UNCHANGED <<pv, driver, src, snd, c2s, s2c, closedSend, rcv, disk,
                   rawCount, fts, ftsFS, cli, hnd, tk, srv, cn>>

NextRetry ==
    \/ RtLoop
    \/ RtStream
    \/ RtSendStart
    \/ RtSendChunk
    \/ RtSendFault
    \/ RtStatus
    \/ RtCloseSend
    \/ \E i \in DOMAIN rt.streams : RtReceive(i)
    \/ \E i \in DOMAIN rt.streams : RtReceiveEOF(i)

-----------------------------------------------------------------------------
(* Specifications of the transfer.                                         *)

\* the transfer at rest, driven by d
Quiet(d) ==
    /\ driver = d
    /\ c2s = <<>>
    /\ s2c = <<>>
    /\ closedSend = FALSE
    /\ rcv = RcvStart
    /\ dest = (DestRR :> OldContent)
    /\ disk = DestOutcome
    /\ tracker = [snd |-> NewTracker, rcv |-> NewTracker]
    /\ rawCount = 0
    /\ ghost = GhostStart

\* Sender.SendFile of a source file of any size, into Receiver.ReceiveFile
InitSend ==
    /\ Quiet("sender")
    /\ src \in SourceFiles
    /\ snd = SndStart
    /\ pv = PvIdle
    /\ fts = FtsIdle
    /\ ftsFS = FtsFSStart
    /\ cli = CliIdle
    /\ hnd = HndIdle
    /\ tk = TkIdle
    /\ srv = SrvIdle
    /\ cn = CnIdle
    /\ rt = RtIdle

\* a raw client into Receiver.ReceiveFile
InitRaw ==
    /\ Quiet("raw")
    /\ src = <<>>
    /\ snd = SndOff
    /\ pv = PvIdle
    /\ fts = FtsIdle
    /\ ftsFS = FtsFSStart
    /\ cli = CliIdle
    /\ hnd = HndIdle
    /\ tk = TkIdle
    /\ srv = SrvIdle
    /\ cn = CnIdle
    /\ rt = RtIdle

NextSend ==
    \/ SendFileStart
    \/ SendFileChunk
    \/ SendFileStatus
    \/ CloseSend
    \/ ReceiveFromSender
    \/ ReceiveEndOfStream

SpecSend == InitSend /\ [][NextSend]_vars

\* SendFile into ReceiveFile with a source that may grow and reads, sends
\* and receives that may fail
NextSendFaulty ==
    \/ NextSend
    \/ SourceAppended
    \/ SendFileReadError
    \/ SendFileSendError
    \/ SendFileRecvError

SpecSendFaulty == InitSend /\ [][NextSendFaulty]_vars

\* ReceiveFile under a raw client, with a stream.Recv that may fail
NextRawFaulty ==
    \/ ReceiveFromRaw
    \/ RawCloseSend
    \/ ReceiveEndOfStream
    \/ ReceiveRecvError

SpecRawFaulty == InitRaw /\ [][NextRawFaulty]_vars

\* the goroutines of SendFile and ReceiveFile run whenever they can
FairSpecSend == InitSend /\ [][NextSend]_vars /\ WF_vars(NextSend)

\* one stream into FileTransferServer.Transfer
InitFTS ==
    /\ Quiet("fts")
    /\ src = <<>>
    /\ snd = SndOff
    /\ pv = PvIdle
    /\ fts = FtsStart
    /\ ftsFS = FtsFSStart
    /\ cli = CliIdle
    /\ hnd = HndIdle
    /\ tk = TkIdle
    /\ srv = SrvIdle
    /\ cn = CnIdle
    /\ rt = RtIdle

SpecFTS == InitFTS /\ [][NextFTS]_vars

\* one call of one validator on one raw path
InitPath ==
    /\ Quiet("path")
    /\ src = <<>>
    /\ snd = SndOff
    /\ pv \in [path : RawPaths, variant : {"none"}, res : {Reject("none")}]
    /\ fts = FtsIdle
    /\ ftsFS = FtsFSStart
    /\ cli = CliIdle
    /\ hnd = HndIdle
    /\ tk = TkIdle
    /\ srv = SrvIdle
    /\ cn = CnIdle
    /\ rt = RtIdle

NextPath ==
    \/ CallValidatePath
    \/ CallValidateSourcePath
    \/ CallPathValidatorRooted
    \/ CallPathValidatorAbsOnly

SpecPath == InitPath /\ [][NextPath]_vars

\* TransferFiles on a list of files, each attempt taken with its outcome
InitClient ==
    /\ Quiet("client")
    /\ src = <<>>
    /\ snd = SndOff
    /\ pv = PvIdle
    /\ fts = FtsIdle
    /\ ftsFS = FtsFSStart
    /\ cli \in {CliStart(n, d) : n \in 1..MaxFiles, d \in ClientDests}
    /\ hnd = HndIdle
    /\ tk = TkIdle
    /\ srv = SrvIdle
    /\ cn = CnIdle
    /\ rt = RtIdle

SpecClient == InitClient /\ [][NextClient]_vars

\* handleTransfer with the transfer of one file running in its goroutine
InitHandler ==
    /\ Quiet("sender")
    /\ src \in SourceFiles
    /\ snd = SndStart
    /\ pv = PvIdle
    /\ fts = FtsIdle
    /\ ftsFS = FtsFSStart
    /\ cli = CliIdle
    /\ hnd = HndStart
    /\ tk = TkIdle
    /\ srv = SrvIdle
    /\ cn = CnIdle
    /\ rt = RtIdle

NextHandler ==
    \/ NextSend
    \/ RequestCancelled
    \/ HandlerCancelled
    \/ HandlerResult

SpecHandler == InitHandler /\ [][NextHandler]_vars

\* goroutines calling one Tracker, every lock operation a step
InitTracker ==
    /\ Quiet("tracker")
    /\ src = <<>>
    /\ snd = SndOff
    /\ pv = PvIdle
    /\ fts = FtsIdle
    /\ ftsFS = FtsFSStart
    /\ cli = CliIdle
    /\ hnd = HndIdle
    /\ tk = TkStart
    /\ srv = SrvIdle
    /\ cn = CnIdle
    /\ rt = RtIdle

SpecTracker == InitTracker /\ [][NextTracker]_vars

\* one request to the HTTP front end
InitServer ==
    /\ Quiet("server")
    /\ src = <<>>
    /\ snd = SndOff
    /\ pv = PvIdle
    /\ fts = FtsIdle
    /\ ftsFS = FtsFSStart
    /\ cli = CliIdle
    /\ hnd = HndIdle
    /\ tk = TkIdle
    /\ srv = SrvListening
    /\ cn = CnIdle
    /\ rt = RtIdle

SpecServer == InitServer /\ [][NextServer]_vars

\* several HTTP requests on one Client that has not connected yet
InitConnect ==
    /\ Quiet("connect")
    /\ src = <<>>
    /\ snd = SndOff
    /\ pv = PvIdle
    /\ fts = FtsIdle
    /\ ftsFS = FtsFSStart
    /\ cli = CliIdle
    /\ hnd = HndIdle
    /\ tk = TkIdle
    /\ srv = SrvIdle
    /\ cn = CnStart
    /\ rt = RtIdle

SpecConnect == InitConnect /\ [][NextConnect]_vars

\* transferSingleFile of one file, its attempts one after the other
InitRetry ==
    /\ Quiet("retry")
    /\ src \in RetrySources
    /\ snd = SndOff
    /\ pv = PvIdle
    /\ fts = FtsIdle
    /\ ftsFS = FtsFSStart
    /\ cli = CliIdle
    /\ hnd = HndIdle
    /\ tk = TkIdle
    /\ srv = SrvIdle
    /\ cn = CnIdle
    /\ rt = RtStart

SpecRetry == InitRetry /\ [][NextRetry]_vars

Init == InitSend \/ InitRaw \/ InitFTS

Next == NextSend \/ ReceiveFromRaw \/ RawCloseSend \/ NextFTS

Spec == Init /\ [][Next]_vars


-----------------------------------------------------------------------------
(* Claims about the transfer.                                              *)

\* p lies strictly below root, component by component
Under(root, p) == HasPrefix(p, root \o Slash) /\ ~Contains(Split(p), <<DotDot>>)

Procs == {"snd", "rcv"}

LastStatus == s2c[Len(s2c)]

\* C1: a transfer is marked completed in a tracker, and a 'completed' status
\* is sent, only when the received-byte counter equals the total size the
\* file's first chunk declared and every chunk written passed the SHA-256
\* comparison; every 'completed' tracker entry has BytesTransferred = TotalSize.
C1_CompletedMeansAllBytes ==
    /\ \A p \in Procs : \A id \in FileIds :
          tracker[p][id].status = "completed"
              => tracker[p][id].bytes = tracker[p][id].total
    /\ \A id \in FileIds :
          tracker.rcv[id].status = "completed"
              => /\ tracker.rcv[id].total = ghost.declared[id]
                 /\ ghost.written[id] = ghost.declared[id]
    /\ \A i \in DOMAIN s2c :
          s2c[i].kind = "completed" => s2c[i].bytes = s2c[i].total
    /\ ~ghost.unverified

\* C1 witness: a file of more than one chunk's worth of bytes was completed
C1_Witness ==
    \E id \in FileIds :
        /\ tracker.rcv[id].status = "completed"
        /\ tracker.rcv[id].total > 0
        /\ s2c # <<>>
        /\ LastStatus.kind = "completed"
        /\ LastStatus.id = id

\* C2: the BytesTransferred a tracker shows for an identifier never exceeds
\* the declared TotalSize, and percent-complete stays within [0, 100].
C2_ProgressBounded ==
    \A p \in Procs : \A id \in FileIds :
        tracker[p][id] # NoEntry
            => /\ tracker[p][id].bytes >= 0
               /\ tracker[p][id].bytes <= tracker[p][id].total
               /\ GetProgressPercent(tracker[p][id]) \in 0..100

\* C3: after a chunk whose recomputed SHA-256 differs from the declared
\* checksum, an error status is the last thing sent, the transfer is failed
\* in the tracker, nothing of an unverified chunk was written, the handler
\* has returned (no further chunk is processed) and 'completed' is neither
\* reported nor recorded for that identifier.
C3_IntegrityAbort ==
    \A id \in ghost.integrityFailed :
        /\ rcv.pc = "returned"
        /\ rcv.ret = "err"
        /\ tracker.rcv[id].status = "error"
        /\ s2c # <<>>
        /\ LastStatus = ErrorStatus(id, "checksum mismatch")
        /\ ~ghost.unverified

\* C3 witness: the mismatch came after verified bytes of the file were written
C3_Witness ==
    \E id \in ghost.integrityFailed : ghost.written[id] > 0

\* C5: once Sender.SendFile into Receiver.ReceiveFile has run to its end, the
\* destination holds exactly the source bytes and the sender has read a
\* 'completed' status, with BytesTransferred equal to the source size.
C5_RoundTrip ==
    (~ENABLED NextSend)
        => /\ dest[DestRR] = src
           /\ snd.ret = "nil"
           /\ tracker.snd[SenderFileId].status = "completed"
           /\ tracker.snd[SenderFileId].bytes = Len(src)
           /\ tracker.rcv[SenderFileId].status = "completed"
           /\ tracker.rcv[SenderFileId].bytes = Len(src)


-----------------------------------------------------------------------------
(* Claims about FileTransferServer.Transfer and about finalization.        *)

\* C4: a finalization that finds the received-byte count different from the
\* expected total ends in a data-loss error and never in a completion:
\* Receiver.finalizeFile sends the error status, fails the transfer in the
\* tracker and ReceiveFile returns the error; FileTransferServer.Transfer
\* returns DataLoss, sends no success response and keeps no file.
C4_MismatchIsDataLoss ==
    /\ \A id \in ghost.sizeFailed :
          /\ rcv.pc = "returned"
          /\ rcv.ret = "err"
          /\ tracker.rcv[id].status = "error"
          /\ s2c # <<>>
          /\ LastStatus = ErrorStatus(id, "incomplete transfer")
    /\ (/\ fts.pc = "returned"
        /\ fts.targetPath # <<>>
        /\ fts.req.kind = "complete"
        /\ fts.req.count # fts.bytesReceived)
          => /\ fts.code = "DataLoss"
             /\ fts.sent = <<>>
             /\ fts.targetPath \notin DOMAIN ftsFS.files
    /\ fts.sent # <<>> => fts.req.count = fts.bytesReceived

\* C4 witness: the completion message of a stream that carried bytes named a
\* different count
C4_Witness ==
    /\ fts.pc = "returned"
    /\ fts.targetPath # <<>>
    /\ fts.req.kind = "complete"
    /\ fts.bytesReceived > 0
    /\ fts.req.count # fts.bytesReceived

\* the receiver's side of C4: a file switch found the previous file short
C4_ReceiverCase ==
    \E id \in ghost.sizeFailed : ghost.written[id] > 0 /\ rcv.fileID = id

\* C9: when the first message of the stream is not metadata the handler
\* returns InvalidArgument, having created no directory and no file and sent
\* nothing.
C9_MetadataFirst ==
    \A i \in DOMAIN fts.first :
        ~(fts.first[i].kind = "metadata")
            => /\ fts.pc = "returned"
               /\ fts.code = "InvalidArgument"
               /\ ftsFS = FtsFSStart
               /\ fts.sent = <<>>

\* C9 witness: the stream opened with a chunk that carried data
C9_Witness ==
    /\ fts.first # <<>>
    /\ fts.first[1].kind = "chunk"
    /\ fts.first[1].data # <<>>
    /\ fts.pc = "returned"

\* C10: a metadata path that is absolute, or whose cleaned form starts with
\* "..", is answered with InvalidArgument before any directory or file is
\* created; every file and directory the handler creates lies under rootDir.
C10_PathStaysInRoot ==
    /\ \A i \in DOMAIN fts.first :
          (/\ fts.first[i].kind = "metadata"
           /\ \/ IsAbs(fts.first[i].path)
              \/ HasPrefix(Clean(fts.first[i].path), DotDot))
            => /\ fts.pc = "returned"
               /\ fts.code = "InvalidArgument"
               /\ ftsFS = FtsFSStart
    /\ \A f \in DOMAIN ftsFS.files : Under(rootDir, f)
    /\ \A d \in ftsFS.dirs \ FtsFSStart.dirs : Under(rootDir, d)

\* C10 witness: a relative path that only cleaning shows to leave the root
C10_Witness ==
    /\ fts.first # <<>>
    /\ fts.first[1].kind = "metadata"
    /\ ~HasPrefix(fts.first[1].path, DotDot)
    /\ HasPrefix(Clean(fts.first[1].path), DotDot)
    /\ fts.pc = "returned"


\* C39: when Transfer has returned after creating the destination file, the
\* file is gone if it returned an error, and holds exactly the data of the
\* chunks received, in their order, if it returned nil.
C39_FileGoneOrExact ==
    (fts.pc = "returned" /\ fts.targetPath # <<>>)
        => IF fts.code # "OK"
           THEN fts.targetPath \notin DOMAIN ftsFS.files
           ELSE /\ fts.targetPath \in DOMAIN ftsFS.files
                /\ ftsFS.files[fts.targetPath] = fts.got

\* C39 witness: an error return after bytes were written onto an older file
C39_Witness ==
    /\ fts.pc = "returned"
    /\ fts.code \notin {"OK", "DataLoss"}
    /\ fts.targetPath \in DOMAIN FtsFSStart.files
    /\ fts.got = <<8, 9>>

\* the FileSize the metadata message of this stream declared
DeclaredSize == fts.first[1].fileSize

\* C32: Transfer sends a success response only when the bytes it wrote are
\* as many as the metadata message declared.
C32_SuccessMeansDeclaredSize ==
    (fts.sent # <<>>) => fts.bytesReceived = DeclaredSize

-----------------------------------------------------------------------------
(* Claims about the path validators.                                       *)

\* the three ValidatePath variants
PathVariants == {"Validator", "Rooted", "AbsOnly"}

\* the raw path has a ".." segment
HasDotDotSegment(path) == \E i \in DOMAIN Split(path) : Split(path)[i] = DotDot

\* the symlink of the disk that lies in the root and points out of it
LinkPath == <<"/", "r", "/", "l">>

ThroughLink(p) == p = LinkPath \/ HasPrefix(p, LinkPath \o Slash)

\* the unresolved path under the root that a variant reads the input as
Lexical(variant, path) ==
    IF variant = "Validator" /\ IsAbs(path) THEN Clean(path)
    ELSE Join(allowedDir, TrimPrefix(Clean(path), Slash))

\* C6: every path Validator.ValidatePath returns, and every path in the list
\* Validator.ValidateSourcePath returns, is the root itself or lies below it
\* component by component.
C6_ReturnedUnderRoot ==
    pv.variant \in {"Validator", "Source"}
        => \A p \in pv.res.paths : p = allowedDir \/ Under(allowedDir, p)

\* C7: a raw path with a ".." segment is answered with an error, never with
\* a validated path, by Validator.ValidatePath and by both
\* PathValidator.ValidatePath variants.
C7_DotDotRejected ==
    (pv.variant \in PathVariants /\ HasDotDotSegment(pv.path))
        => pv.res.err # "nil" /\ pv.res.paths = {}

\* C7 witness: a ".." segment that cleaning removes, in a path that stays
\* under the root
C7_Witness ==
    /\ pv.variant = "Validator"
    /\ HasDotDotSegment(pv.path)
    /\ ~Contains(Clean(pv.path), DotDot)
    /\ pv.res.err = "traversal"

\* C8: a path that passes through the symlink inside the root that points
\* outside it is rejected by each ValidatePath variant, whether the leaf
\* exists, only its parent exists, or neither exists.
C8_SymlinkEscapeRejected ==
    (pv.variant \in PathVariants /\ ThroughLink(Lexical(pv.variant, pv.path)))
        => pv.res.err # "nil"


-----------------------------------------------------------------------------
(* Claims about the statuses of a stream, the sender's chunks and the      *)
(* client's retries.                                                       *)

\* positions in the stream's status log of the terminal statuses of id
Terminals(id) ==
    {i \in DOMAIN ghost.log :
        ghost.log[i][1] = id /\ ghost.log[i][2] \in {"completed", "error"}}

\* C11: for every file identifier ReceiveFile opened, at most one terminal
\* status ('completed' or 'error') with that identifier is on the stream,
\* exactly one once the handler has returned, and every in_progress status
\* of the identifier precedes it.
C11_OneTerminalStatus ==
    \A id \in ghost.opened :
        /\ Cardinality(Terminals(id)) <= 1
        /\ rcv.pc = "returned" => Cardinality(Terminals(id)) = 1
        /\ \A i \in Terminals(id) : \A j \in DOMAIN ghost.log :
              ghost.log[j] = <<id, "in_progress">> => j < i

\* SendFile has left its "Send file in chunks" loop
SendLoopDone == snd.pc \in {"status", "returned", "closed"}

\* C12: for an empty source file SendFile sends exactly one chunk, with an
\* empty payload, the digest of the empty payload and the last-chunk flag,
\* and, once it has returned, it has read 'completed' with byte count 0 and
\* returned no error.
C12_EmptyFileOneChunk ==
    (src = <<>> /\ SendLoopDone)
        => /\ Len(ghost.chunks) = 1
           /\ ghost.chunks[1].data = <<>>
           /\ ghost.chunks[1].checksum = Sha256(<<>>)
           /\ ghost.chunks[1].isLast
           /\ snd.pc \in {"returned", "closed"}
                 => /\ snd.ret = "nil"
                    /\ tracker.snd[SenderFileId].status = "completed"
                    /\ tracker.snd[SenderFileId].bytes = 0

\* ceil(a / b)
CeilDiv(a, b) == (a + b - 1) \div b

\* C13: for a source file of S > 0 bytes SendFile sends exactly ceil(S / C)
\* chunks, at offsets 0, C, 2C, ..., each of C bytes except possibly the
\* final one, with the last-chunk flag on the final chunk and on no other.
C13_ChunkSequence ==
    (src # <<>> /\ SendLoopDone)
        => LET k == CeilDiv(Len(src), ChunkSize)
           IN  /\ Len(ghost.chunks) = k
               /\ \A i \in 1..Len(ghost.chunks) :
                     /\ ghost.chunks[i].offset = (i - 1) * ChunkSize
                     /\ Len(ghost.chunks[i].data) =
                           IF i < k THEN ChunkSize
                           ELSE Len(src) - (k - 1) * ChunkSize
                     /\ ghost.chunks[i].isLast <=> i = k

\* C13 witness: two full chunks and a partial one were sent
C13_Witness ==
    /\ SendLoopDone
    /\ Len(src) = 2 * ChunkSize + 1
    /\ Len(ghost.chunks) = 3
    /\ Len(ghost.chunks[3].data) = 1

\* C14: every call of SendFile against ReceiveFile eventually returns.
C14_SendFileReturns == <>(snd.pc \in {"returned", "closed"})

\* positions in the client's log of the events ev of file f
EventsOf(f, ev) ==
    {i \in DOMAIN cli.log : cli.log[i].file = f /\ cli.log[i].ev = ev}

\* positions in the client's log of all events of file f
AllEventsOf(f) == {i \in DOMAIN cli.log : cli.log[i].file = f}

\* the largest element of a non-empty set of positions
Last(S) == CHOOSE i \in S : \A j \in S : j <= i

\* C15: when every attempt of transferSingleFile fails, the file was retried
\* exactly retryCount times, with the delay before each retry and none
\* before the first attempt, and the error returned names retryCount and
\* wraps the last attempt's error; an attempt that succeeds is the file's
\* last.
C15_RetriesThenPermanentFailure ==
    /\ (cli.pc = "done" /\ cli.ret = "failed after retries")
          => LET f == cli.failed
                 first == CHOOSE i \in AllEventsOf(f) : \A j \in AllEventsOf(f) : i <= j
             IN  /\ Cardinality(EventsOf(f, "stream")) = 1 + retryCount
                 /\ Cardinality(EventsOf(f, "sleep")) = retryCount
                 /\ cli.log[first].ev = "stream"
                 /\ \A i \in EventsOf(f, "stream") \ {first} :
                       cli.log[i - 1] = Event("sleep", f, "delay")
                 /\ \A i \in EventsOf(f, "sleep") : cli.log[i + 1].ev = "stream"
                 /\ cli.slept = retryCount * retryDelay
                 /\ cli.named = retryCount
                 /\ cli.wrapped = cli.log[Last(AllEventsOf(f))].what
                 /\ cli.wrapped # "nil"
    /\ \A i \in DOMAIN cli.log :
          cli.log[i] = Event("send", cli.log[i].file, "nil")
              => i = Last(AllEventsOf(cli.log[i].file))

\* C15 witness: a file ran out of retries, one of them on a stream that could
\* not be created, the last on a failing transport
C15_Witness ==
    /\ cli.pc = "done"
    /\ cli.ret = "failed after retries"
    /\ cli.wrapped = "transport"
    /\ \E i \in DOMAIN cli.log :
          cli.log[i] = Event("stream", cli.failed, "failed to create stream")

\* C16: transferSingleFile opens at most 3 attempts (streams) for one file.
C16_AtMostThreeAttempts ==
    \A f \in 1..MaxFiles : Cardinality(EventsOf(f, "stream")) <= ReadmeMaxAttempts

\* C17: TransferFiles takes the files one at a time in list order; when a
\* file exhausts its retries the call returns that file's error, no later
\* file was attempted, and the files sent before it stay delivered.
C17_FailFast ==
    /\ \A i, j \in DOMAIN cli.log : i < j => cli.log[i].file <= cli.log[j].file
    /\ cli.delivered = {f \in 1..MaxFiles :
                           \E i \in EventsOf(f, "send") : cli.log[i].what = "nil"}
    /\ (cli.pc = "done" /\ cli.ret # "nil")
          => /\ cli.ret = "failed after retries"
             /\ Cardinality(EventsOf(cli.failed, "stream")) = 1 + retryCount
             /\ \A f \in 1..MaxFiles : f > cli.failed => AllEventsOf(f) = {}
             /\ cli.delivered = 1..(cli.failed - 1)
    /\ (cli.pc = "done" /\ cli.ret = "nil") => cli.delivered = 1..cli.nfiles

\* C17 witness: the second file failed after the first was delivered
C17_Witness ==
    /\ cli.pc = "done"
    /\ cli.ret # "nil"
    /\ cli.failed = 2
    /\ cli.delivered = {1}

\* C18: after SendFile returned the receiver's refusal of the destination
\* path, transferSingleFile makes no further attempt for the file.
C18_ValidationNotRetried ==
    \A i \in DOMAIN cli.log :
        cli.log[i] = Event("send", cli.log[i].file, "invalid destination path")
            => i = Last(AllEventsOf(cli.log[i].file))

\* C19: once handleTransfer has seen its context done, no chunk is sent for
\* the request, and the Sender has marked the transfer failed in the tracker
\* when it returns.
C19_CancelStopsSender ==
    (hnd.pc = "returned" /\ hnd.event = "Client disconnected")
        => /\ Len(ghost.chunks) = hnd.chunksAtCancel
           /\ snd.pc \in {"returned", "closed"}
                 => tracker.snd[SenderFileId].status = "error"

\* C20: FileTransferServer.Transfer answers the metadata message, and each
\* chunk message, with a success response before it waits for the next
\* message.
C20_EveryMessageAnswered ==
    fts.pc = "chunks"
        => /\ Len(fts.sent) >= 1
           /\ fts.req.kind = "chunk" => Len(fts.sent) >= 2

-----------------------------------------------------------------------------
(* Claims about the percentage.                                            *)

\* C24: the percentage ReceiveFile puts into a progress status, which is
\* GetProgressPercent of the tracker entry, is 0 when TotalSize is 0 and
\* otherwise BytesTransferred / TotalSize x 100 (to the whole percent below).
C24_PercentOfEntry ==
    \A i \in DOMAIN s2c :
        s2c[i].kind = "in_progress"
            => /\ s2c[i].total = 0 => s2c[i].pct = 0
               /\ s2c[i].total # 0
                    => /\ s2c[i].pct * s2c[i].total <= s2c[i].bytes * 100
                       /\ s2c[i].bytes * 100 < (s2c[i].pct + 1) * s2c[i].total

\* C24 witness: a progress status was sent for a chunk of a file of declared
\* size 0, computed from the tracker entry of that file
C24_Witness ==
    \E i \in DOMAIN s2c : \E id \in FileIds :
        /\ s2c[i].kind = "in_progress"
        /\ s2c[i].id = id
        /\ s2c[i].total = 0
        /\ s2c[i].pct = 0
        /\ tracker.rcv[id] # NoEntry
        /\ tracker.rcv[id].total = 0

\* C25: the tracker entry of a completed transfer of an empty file shows
\* 100 percent, as the 'completed' status sent for it does.
C25_EmptyFileFullPercent ==
    \A p \in Procs : \A id \in FileIds :
        (tracker[p][id].status = "completed" /\ tracker[p][id].total = 0)
            => GetProgressPercent(tracker[p][id]) = 100

-----------------------------------------------------------------------------
(* Claims about the destination file.                                      *)

\* C28: once SendFile has read 'completed' for a transfer onto a path that
\* held content before, the destination holds exactly the source bytes; and
\* whenever ReceiveFile has completed a file, no byte of what the path held
\* before is left in it.
C28_OverwriteExact ==
    /\ (driver = "sender" /\ tracker.snd[SenderFileId].status = "completed")
          => dest[DestRR] = src
    /\ (\E id \in FileIds : tracker.rcv[id].status = "completed")
          => \A i \in DOMAIN dest[DestRR] :
                \A j \in DOMAIN OldContent : dest[DestRR][i] # OldContent[j]

\* C28 witness: a completed transfer of a source shorter than the old content
C28_Witness ==
    /\ driver = "sender"
    /\ tracker.snd[SenderFileId].status = "completed"
    /\ src # <<>>
    /\ Len(src) < Len(OldContent)
    /\ Len(dest[DestRR]) = Len(src)

-----------------------------------------------------------------------------
(* Claims about the order of steps in ReceiveFile.                         *)

\* how many statuses the step sent, and the statuses themselves
SentNow == Len(ghost'.log) - Len(ghost.log)
NewStatus(i) == s2c'[Len(s2c') - SentNow + i]

\* the payload bytes (they are never 0) in the file at the receiver's path
PayloadBytes(files, path) ==
    Cardinality({i \in DOMAIN files[path] : files[path][i] # 0})

\* what the first status sent for a file just opened shows: an error and
\* the end of the call, or the bytes of this one chunk, counted from 0, in
\* a file that holds nothing else, with the tracker entry registered
OpenedFresh(status) ==
    \/ /\ status.kind = "error"
       /\ rcv'.pc = "returned"
       /\ ghost'.written[status.id] = 0 \/ ghost'.written = ghost.written
    \/ /\ status.kind = "in_progress"
       /\ status.bytes = ghost'.written[status.id]
       /\ PayloadBytes(dest', rcv'.filePath) = status.bytes
       /\ tracker'.rcv[status.id] # NoEntry
       /\ tracker'.rcv[status.id].total = status.total
       /\ tracker'.rcv[status.id].bytes = status.bytes

\* C29: in a step of ReceiveFile that has a file open and sends a status for
\* another identifier, the first status sent is the terminal status of the
\* open file: 'completed' exactly when its received count equals its total,
\* else 'error' and nothing more is sent or written; only after 'completed'
\* is the new file validated, created, registered and written from 0.  With
\* no file open (after a last chunk), the first status is that of the new
\* file, opened the same way.
C29_FinalizeThenOpen ==
    [][/\ (rcv.pc = "recv" /\ rcv.open /\ SentNow > 0
             /\ \E i \in 1..SentNow : NewStatus(i).id # rcv.fileID)
          => /\ NewStatus(1).id = rcv.fileID
             /\ NewStatus(1).kind \in {"completed", "error"}
             /\ NewStatus(1).kind = "completed" <=> rcv.received = rcv.total
             /\ NewStatus(1).kind = "error"
                   => /\ SentNow = 1
                      /\ rcv'.pc = "returned"
                      /\ dest' = dest
                      /\ ghost'.written = ghost.written
             /\ NewStatus(1).kind = "completed"
                   => /\ tracker'.rcv[rcv.fileID].status = "completed"
                            \/ NewStatus(2).id = rcv.fileID
                      /\ OpenedFresh(NewStatus(2))
       /\ (rcv.pc = "recv" /\ ~rcv.open /\ SentNow > 0)
          => OpenedFresh(NewStatus(1))]_vars

\* C29 witness: "A" was open and not at its last chunk when the first chunk
\* of "B" came: "A" was completed, then "B" opened and written
C29_Witness ==
    /\ Len(ghost.log) = 3
    /\ ghost.log[1] = <<"A", "in_progress">>
    /\ ghost.log[2] = <<"A", "completed">>
    /\ ghost.log[3] = <<"B", "in_progress">>
    /\ ghost.handles = 2
    /\ rcv.open
    /\ rcv.fileID = "B"
    /\ tracker.rcv["A"].status = "completed"
    /\ tracker.rcv["B"].status = "in_progress"

\* C37: when ReceiveFile has just reported 'completed' for a file, every
\* position below TotalSize of the destination holds a byte of a chunk and
\* nothing was written at or beyond TotalSize.
C37_CompletedCoversFile ==
    (s2c # <<>> /\ LastStatus.kind = "completed")
        => /\ Len(dest[DestRR]) = LastStatus.total
           /\ PayloadBytes(dest, DestRR) = LastStatus.total

-----------------------------------------------------------------------------
(* Claims about the receiver's tracker.                                    *)

\* C36: once ReceiveFile has returned, every tracker entry it started is
\* 'completed' or 'error'.
C36_NoEntryLeftInProgress ==
    (rcv.pc = "returned")
        => \A id \in ghost.opened :
              tracker.rcv[id].status \in {"completed", "error"}

-----------------------------------------------------------------------------
(* Claims about the attempts of one file.                                  *)

\* the streams whose run of ReceiveFile holds the destination open
RtOpen == {i \in DOMAIN rt.streams : rt.streams[i].rcv.open}

\* C33: once the stream of a later attempt exists, the run of ReceiveFile of
\* every earlier attempt holds no destination file open, and at no time do
\* two runs hold one open.
C33_AttemptsNeverOverlap ==
    /\ \A i \in RtOpen : i = Len(rt.streams)
    /\ Cardinality(RtOpen) <= 1

-----------------------------------------------------------------------------
(* Claims about the destination file handles.                              *)

\* C38: at most one destination file is open at any time, and none is open
\* once ReceiveFile has returned.
C38_HandlesClosed ==
    /\ ghost.handles <= 1
    /\ rcv.pc = "returned" => ghost.handles = 0

-----------------------------------------------------------------------------
(* Claims about the sender's tracker.                                      *)

RECURSIVE BytesHanded(_)
BytesHanded(chunks) ==
    IF chunks = <<>> THEN 0 ELSE Len(Head(chunks).data) + BytesHanded(Tail(chunks))

\* C30: when SendFile has returned an error, the tracker entry of its
\* transfer has status 'error' and the message of that error; and at every
\* read and after, the entry's BytesTransferred is the number of bytes
\* handed to the stream so far.
C30_ErrorIsTracked ==
    /\ (snd.pc \in {"returned", "closed"} /\ snd.ret = "err")
          => /\ tracker.snd[SenderFileId].status = "error"
             /\ tracker.snd[SenderFileId].err = snd.msg
             /\ snd.msg # ""
    /\ (snd.pc \in {"send", "status", "returned", "closed"})
          => /\ tracker.snd[SenderFileId] # NoEntry
             /\ tracker.snd[SenderFileId].bytes = BytesHanded(ghost.chunks)
             /\ tracker.snd[SenderFileId].bytes = snd.offset

\* C30 witness: SendFile handed chunks to the stream, then read the
\* receiver's 'error' status and returned its message
C30_Witness ==
    /\ snd.pc = "returned"
    /\ snd.ret = "err"
    /\ snd.msg = "incomplete transfer"
    /\ ghost.chunks # <<>>
    /\ tracker.snd[SenderFileId].bytes > 0
    /\ tracker.snd[SenderFileId].status = "error"

-----------------------------------------------------------------------------
(* Claims about the destination path of a file.                            *)

\* destPath is written as a directory, or is one on the receiver's disk
DenotesDirectory(destPath) ==
    \/ HasSuffix(destPath, Slash)
    \/ LET w == Walk(<<>>, Split(Join(allowedDir, destPath)))
       IN  w.ok /\ Node(w.elems).kind = "dir"

\* C31: the FilePath SendFile puts in its chunks is the destination as given
\* when the destination names a file, and the destination joined with the
\* source's base name when it denotes a directory.
C31_DestinationAsGiven ==
    (cli.chunkPath # <<>>) =>
        cli.chunkPath = IF cli.dest = <<>> THEN Base(SrcPath)
                        ELSE IF DenotesDirectory(cli.dest)
                        THEN Join(cli.dest, Base(SrcPath))
                        ELSE cli.dest

\* C35: SendFile has returned nil only after it read the 'completed' status
\* the receiver sent for its transfer, and its tracker entry is 'completed'
\* then, never 'in_progress'.
C35_NilMeansCompletedRead ==
    (snd.pc \in {"returned", "closed"} /\ snd.ret = "nil")
        => /\ tracker.snd[SenderFileId].status = "completed"
           /\ \E i \in DOMAIN ghost.log : ghost.log[i] = <<SenderFileId, "completed">>
           /\ \A i \in DOMAIN s2c : s2c[i].kind # "completed"

\* C35 witness: SendFile returned nil for a file of several chunks
C35_Witness ==
    /\ snd.pc = "returned"
    /\ snd.ret = "nil"
    /\ Len(ghost.chunks) > 1
    /\ tracker.rcv[SenderFileId].status = "completed"

-----------------------------------------------------------------------------
(* Claims about the HTTP front end.                                        *)

LastMessage == srv.out[Len(srv.out)]

\* C26: a transfer request whose source expands to no file that is sent or
\* copied ends with an error message, never with 'completed'.
C26_NoFileIsAnError ==
    (srv.pc = "done" /\ srv.kind = "transfer" /\ srv.sent = {} /\ srv.copied = {})
        => LastMessage = "error"

\* C27: a request whose path has no prefix, or a prefix other than "local"
\* and "peer", is answered with an error and nothing is sent, copied or
\* deleted, here or on the peer.
C27_OnlyLocalAndPeer ==
    (srv.pc = "done"
        /\ \/ srv.srcTag \notin {"local", "peer"}
           \/ srv.kind = "transfer" /\ srv.destTag \notin {"local", "peer"})
        => /\ LastMessage = "error"
           /\ srv.sent = {}
           /\ srv.copied = {}
           /\ srv.removedLocal = {}
           /\ srv.removedPeer = {}

-----------------------------------------------------------------------------
(* Claims about the shared Tracker.                                        *)

\* what GetProgress(id) would answer now, read through the pointer
View(id) ==
    IF tk.transfers[id] = 0 THEN NoEntry ELSE tk.entries[tk.transfers[id]]

EntryPhase == {"elock", "elockwait", "elocked", "erlock", "erlocked"}

\* C21: a step changes what the tracker shows for an identifier only when
\* the goroutine taking it is in StartTransfer, UpdateProgress,
\* CompleteTransfer or FailTransfer on that same identifier; an identifier
\* not in the map gets an entry from StartTransfer only; and a FileProgress
\* object is written only by the goroutine that looked it up.
C21_OnlyOwnEntry ==
    [][/\ \A id \in TrackerIds :
            View(id)' # View(id)
                => \E g \in Goroutines :
                      /\ tk'.gs[g] # tk.gs[g]
                      /\ tk.gs[g].id = id
                      /\ tk.gs[g].op \in {"start", "update", "complete", "fail"}
                      /\ (View(id) = NoEntry => tk.gs[g].op = "start")
       /\ \A o \in 1..Len(tk.entries) :
            tk'.entries[o] # tk.entries[o]
                => \E g \in Goroutines :
                      /\ tk'.gs[g] # tk.gs[g]
                      /\ tk.gs[g].progress = o
                      /\ tk.gs[g].pc = "elocked"]_vars

\* C21 witness: UpdateProgress on the unknown "B" has returned, "B" is still
\* unknown, and the entry of "A" shows the bytes of an update of its own
C21_Witness ==
    \E g \in Goroutines :
        /\ tk.gs[g].pc = "idle"
        /\ tk.gs[g].op = "update"
        /\ tk.gs[g].id = "B"
        /\ tk.gs[g].ret = "absent"
        /\ View("B") = NoEntry
        /\ View("A").status = "in_progress"
        /\ View("A").bytes = 1

\* C40: Connect is executed at most once and at most one peer connection is
\* created, however many requests call TransferFiles; no two calls are
\* between the test of conn and the end of Connect together.
C40_ConnectOnce ==
    /\ cn.connects <= 1
    /\ cn.dials <= 1
    /\ Cardinality({q \in ConnRequests :
                       cn.rs[q].pc \in {"dial", "store", "client"}}) <= 1

\* C34: a FileProgress whose status is 'completed' or 'error' keeps its
\* status and its BytesTransferred in every later step.
C34_TerminalIsFinal ==
    [][\A o \in 1..Len(tk.entries) :
          tk.entries[o].status \in {"completed", "error"}
              => /\ tk'.entries[o].status = tk.entries[o].status
                 /\ tk'.entries[o].bytes = tk.entries[o].bytes]_vars

\* C22: what a caller got from GetProgress stays as it was when it got it.
C22_SnapshotStable ==
    \A g \in Goroutines :
        tk.gs[g].got # 0 => tk.entries[tk.gs[g].got] = tk.gs[g].seen

\* C23: a goroutine that holds or waits for the registry lock holds and waits
\* for no entry lock, a goroutine at an entry lock does not hold the
\* registry lock, and while a call is under way some goroutine can step.
C23_LocksNeverNested ==
    /\ \A g \in Goroutines :
          (Holds(tk.mu, g) \/ tk.mu.waiting = g)
              => \A o \in 1..Len(tk.emu) :
                    ~Holds(tk.emu[o], g) /\ tk.emu[o].waiting # g
    /\ \A g \in Goroutines :
          tk.gs[g].pc \in EntryPhase => ~Holds(tk.mu, g)
    /\ (\E g \in Goroutines : tk.gs[g].pc \notin {"idle", "off"})
          => \E g \in Goroutines :
                tk.gs[g].pc \notin {"idle", "off"} /\ ENABLED TkStep(g)

\* C23 witness: one goroutine is inside the entry lock of "A" in an update
\* while another holds the registry lock in GetProgress or StartTransfer of "B"
C23_Witness ==
    \E g, h \in Goroutines :
        /\ tk.gs[g].pc = "elocked"
        /\ tk.gs[g].op = "update"
        /\ tk.gs[g].id = "A"
        /\ tk.gs[h].pc \in {"rlocked", "locked"}
        /\ tk.gs[h].op \in {"get", "start"}
        /\ tk.gs[h].id = "B"

=============================================================================
